---- MODULE Spec2Model ----
(***************************************************************************)
(* The embedded relational data-access layer of the tutorial dashboards:   *)
(* the generic CRUD helpers of DatabaseManager (chapter 7), the            *)
(* hand-written statements of DatabaseDashboard (chapter 7) and the        *)
(* sales/summary layer of the professional dashboard (chapter 10), each    *)
(* running against its own SQLite file.  The SQLite engine is modelled as  *)
(* far as the statements of the programs use it: type affinity, NULL       *)
(* comparison, NOT NULL / UNIQUE / PRIMARY KEY constraints, AUTOINCREMENT, *)
(* statement-level abort, aggregates over empty tables, inner joins.       *)
(* Foreign keys are declared but not enforced (no PRAGMA foreign_keys).    *)
(***************************************************************************)
EXTENDS Integers, Sequences, FiniteSets, TLC

VARIABLES
    prog,     \* which program owns the database file of this run
    phase,    \* "connected": __init__ has run connect(); "tables": create_tables()
              \* too; "ready": the window is up; "closed"; "crashed"
    conn,     \* self.connection: "none" (None), "open" or "closed"
    schema,   \* names of the tables that exist in the file
    tabs,     \* table name -> set of rows (a row: column name -> value), as
              \* the connection sees them
    seq,      \* table name -> sqlite_sequence.seq of the AUTOINCREMENT key
    disk,     \* the rows and sequences as of the last commit
    nops,     \* number of starts and calls made so far
    last,     \* the last call: its arguments, the statement sent, its outcome
    rt        \* the window of the professional dashboard: page, user, the
              \* update thread, the callbacks queued and running

vars == <<prog, phase, conn, schema, tabs, seq, disk, nops, last, rt>>

(***************************************************************************)
(* Bounds of the model.                                                    *)
(***************************************************************************)
MaxOps == 3       \* calls made on one database file in a run

(***************************************************************************)
(* Values: Python None / int / str as bound by sqlite3.                    *)
(***************************************************************************)
Null == [t |-> "null", i |-> 0, s |-> ""]
I(n) == [t |-> "int", i |-> n, s |-> ""]
T(x) == [t |-> "text", i |-> 0, s |-> x]

IsNull(v) == v.t = "null"

\* the integers whose decimal text the engine is asked to recognise
Numerals == -2 .. 9

LooksNumeric(x) == \E n \in Numerals : ToString(n) = x
TextToInt(x) == CHOOSE n \in Numerals : ToString(n) = x

\* SQLite column affinity, applied to a value before it is stored or
\* compared with the column
ApplyAffinity(aff, v) ==
    CASE v.t = "null" -> v
      [] aff = "TEXT" /\ v.t = "int" -> T(ToString(v.i))
      [] aff # "TEXT" /\ v.t = "text" /\ LooksNumeric(v.s) -> I(TextToInt(v.s))
      [] OTHER -> v

\* SQL "column = ?": NULL equals nothing, not even NULL
SqlEq(aff, stored, v) ==
    /\ ~IsNull(stored)
    /\ ~IsNull(v)
    /\ stored = ApplyAffinity(aff, v)

Now == T("now")     \* CURRENT_TIMESTAMP


(***************************************************************************)
(* Schemas: the CREATE TABLE statements of each program.                   *)
(***************************************************************************)
Col(aff, nn, uq, d) == [aff |-> aff, notnull |-> nn, unique |-> uq, dflt |-> d]

\* id INTEGER PRIMARY KEY AUTOINCREMENT
IdCol == Col("INTEGER", FALSE, TRUE, Null)

\* basic_database.py: username TEXT UNIQUE NOT NULL, email TEXT UNIQUE NOT NULL
UsersKeyColNotUnique == Col("TEXT", TRUE, FALSE, Null)
UsersKeyCol == Col("TEXT", TRUE, TRUE, Null)

\* basic_database.py, DatabaseManager.create_tables
BasicTables ==
    [users |->
        [id           |-> IdCol,
         username     |-> UsersKeyCol,
         email        |-> UsersKeyCol,
         full_name    |-> Col("TEXT", TRUE, FALSE, Null),
         role         |-> Col("TEXT", FALSE, FALSE, T("user")),
         is_active    |-> Col("NUMERIC", FALSE, FALSE, I(1)),
         created_date |-> Col("NUMERIC", FALSE, FALSE, Now),
         last_login   |-> Col("NUMERIC", FALSE, FALSE, Null)],
     products |->
        [id             |-> IdCol,
         name           |-> Col("TEXT", TRUE, FALSE, Null),
         description    |-> Col("TEXT", FALSE, FALSE, Null),
         price          |-> Col("REAL", TRUE, FALSE, Null),
         category       |-> Col("TEXT", FALSE, FALSE, Null),
         stock_quantity |-> Col("INTEGER", FALSE, FALSE, I(0)),
         created_date   |-> Col("NUMERIC", FALSE, FALSE, Now),
         updated_date   |-> Col("NUMERIC", FALSE, FALSE, Now)],
     orders |->
        [id          |-> IdCol,
         user_id     |-> Col("INTEGER", FALSE, FALSE, Null),
         product_id  |-> Col("INTEGER", FALSE, FALSE, Null),
         quantity    |-> Col("INTEGER", TRUE, FALSE, Null),
         total_price |-> Col("REAL", TRUE, FALSE, Null),
         order_date  |-> Col("NUMERIC", FALSE, FALSE, Now),
         status      |-> Col("TEXT", FALSE, FALSE, T("pending"))]]

\* database_dashboard.py, DatabaseDashboard.create_tables
DashboardTables ==
    [users |->
        [id           |-> IdCol,
         name         |-> Col("TEXT", TRUE, FALSE, Null),
         email        |-> Col("TEXT", TRUE, TRUE, Null),
         role         |-> Col("TEXT", FALSE, FALSE, T("user")),
         created_date |-> Col("NUMERIC", FALSE, FALSE, Now)],
     products |->
        [id           |-> IdCol,
         name         |-> Col("TEXT", TRUE, FALSE, Null),
         category     |-> Col("TEXT", TRUE, FALSE, Null),
         price        |-> Col("REAL", TRUE, FALSE, Null),
         stock        |-> Col("INTEGER", FALSE, FALSE, I(0)),
         created_date |-> Col("NUMERIC", FALSE, FALSE, Now)],
     orders |->
        [id          |-> IdCol,
         user_id     |-> Col("INTEGER", FALSE, FALSE, Null),
         product_id  |-> Col("INTEGER", FALSE, FALSE, Null),
         quantity    |-> Col("INTEGER", TRUE, FALSE, Null),
         total_price |-> Col("REAL", TRUE, FALSE, Null),
         order_date  |-> Col("NUMERIC", FALSE, FALSE, Now)],
     analytics |->
        [id            |-> IdCol,
         metric_name   |-> Col("TEXT", TRUE, FALSE, Null),
         metric_value  |-> Col("REAL", TRUE, FALSE, Null),
         date_recorded |-> Col("NUMERIC", FALSE, FALSE, Now)]]

\* chapter10 main.py, DatabaseManager.create_tables
ProfessionalTables ==
    [users |->
        [id            |-> IdCol,
         username      |-> Col("TEXT", TRUE, TRUE, Null),
         password_hash |-> Col("TEXT", TRUE, FALSE, Null),
         email         |-> Col("TEXT", FALSE, FALSE, Null),
         role          |-> Col("TEXT", FALSE, FALSE, T("user")),
         created_date  |-> Col("NUMERIC", FALSE, FALSE, Now),
         last_login    |-> Col("NUMERIC", FALSE, FALSE, Null)],
     sales |->
        [id           |-> IdCol,
         product_name |-> Col("TEXT", TRUE, FALSE, Null),
         quantity     |-> Col("INTEGER", TRUE, FALSE, Null),
         price        |-> Col("REAL", TRUE, FALSE, Null),
         sale_date    |-> Col("NUMERIC", FALSE, FALSE, Now),
         region       |-> Col("TEXT", FALSE, FALSE, Null),
         salesperson  |-> Col("TEXT", FALSE, FALSE, Null)],
     system_metrics |->
        [id           |-> IdCol,
         metric_name  |-> Col("TEXT", TRUE, FALSE, Null),
         metric_value |-> Col("REAL", TRUE, FALSE, Null),
         timestamp    |-> Col("NUMERIC", FALSE, FALSE, Now)],
     user_preferences |->
        [id               |-> IdCol,
         user_id          |-> Col("INTEGER", FALSE, FALSE, Null),
         preference_key   |-> Col("TEXT", TRUE, FALSE, Null),
         preference_value |-> Col("TEXT", FALSE, FALSE, Null)]]

\* crud_operations.py, DatabaseManager.create_tables: the users table only
CrudTables == [users |-> BasicTables.users]

TableDefs(p) ==
    CASE p = "basic" -> BasicTables
      [] p = "crud" -> CrudTables
      [] p = "dashboard" -> DashboardTables
      [] p = "professional" -> ProfessionalTables

TableNames(p) == DOMAIN TableDefs(p)

AllTables ==
    {"users", "products", "orders", "analytics", "sales", "system_metrics",
     "user_preferences"}

EmptyTabs == [t \in AllTables |-> {}]
ZeroSeq == [t \in AllTables |-> 0]

(***************************************************************************)
(* The SQLite engine: one statement against the database db =              *)
(* [schema, tabs, seq].  A statement is the SQL text, kept structured:     *)
(* every field of stmt is text of the statement, every value of binds is   *)
(* a bound parameter.                                                      *)
(***************************************************************************)
Max(a, b) == IF a >= b THEN a ELSE b

Only(S) == CHOOSE x \in S : TRUE

MaxRowId(rows) ==
    IF rows = {} THEN 0
    ELSE LET r == CHOOSE x \in rows : \A y \in rows : x.id.i >= y.id.i IN r.id.i

RECURSIVE SortById(_)
SortById(rows) ==
    IF rows = {} THEN <<>>
    ELSE LET m == CHOOSE x \in rows : \A y \in rows : x.id.i <= y.id.i
         IN  <<m>> \o SortById(rows \ {m})

Result(exc, db, rowcount, lastrowid, rows) ==
    [exc |-> exc, tabs |-> db.tabs, seq |-> db.seq,
     rowcount |-> rowcount, lastrowid |-> lastrowid, rows |-> rows]

Failure(exc, db) == Result(exc, db, -1, 0, <<>>)

\* WHERE c1 = ? AND c2 = ? ...
Matches(def, conds, r) ==
    \A c \in DOMAIN conds : SqlEq(def[c].aff, r[c], conds[c])

\* prepare: the statement must parse and name existing tables and columns
PrepareError(p, db, stmt) ==
    \/ stmt.verb \in {"INSERT", "UPDATE"} /\ stmt.cols = {}
    \/ stmt.hasWhere /\ stmt.where = {}
    \/ stmt.table \notin db.schema
    \/ stmt.table \in db.schema /\
         ~((stmt.cols \cup stmt.where) \subseteq DOMAIN TableDefs(p)[stmt.table])

\* ExecInsert for a column declared INTEGER PRIMARY KEY without AUTOINCREMENT:
\* the next id is one more than the largest id in the table
ExecInsert_RowidOnly(p, db, stmt, binds) ==
    LET t == stmt.table
        def == TableDefs(p)[t]
        data == binds.set
        auto == MaxRowId(db.tabs[t]) + 1
    IN  Only({
          Only({
            IF raw.id.t = "text" THEN Failure("IntegrityError", db)
            ELSE IF \E c \in DOMAIN def : def[c].notnull /\ IsNull(row[c])
                 THEN Failure("IntegrityError", db)
            ELSE IF \E c \in DOMAIN def : \E r \in db.tabs[t] :
                      def[c].unique /\ ~IsNull(row[c]) /\ r[c] = row[c]
                 THEN Failure("IntegrityError", db)
            ELSE Result("none",
                        [db EXCEPT !.tabs[t] = @ \cup {row},
                                   !.seq[t] = row.id.i],
                        1, row.id.i, <<>>)
            : row \in {[raw EXCEPT !.id = I(IF raw.id.t = "int" THEN raw.id.i
                                            ELSE auto)]} })
          : raw \in {[c \in DOMAIN def |->
                        IF c \in DOMAIN data THEN ApplyAffinity(def[c].aff, data[c])
                        ELSE def[c].dflt]} })

ExecInsert(p, db, stmt, binds) ==
    LET t == stmt.table
        def == TableDefs(p)[t]
        data == binds.set
        auto == Max(db.seq[t], MaxRowId(db.tabs[t])) + 1
    IN  Only({
          Only({
            IF raw.id.t = "text" THEN Failure("IntegrityError", db)
            ELSE IF \E c \in DOMAIN def : def[c].notnull /\ IsNull(row[c])
                 THEN Failure("IntegrityError", db)
            ELSE IF \E c \in DOMAIN def : \E r \in db.tabs[t] :
                      def[c].unique /\ ~IsNull(row[c]) /\ r[c] = row[c]
                 THEN Failure("IntegrityError", db)
            ELSE Result("none",
                        [db EXCEPT !.tabs[t] = @ \cup {row},
                                   !.seq[t] = Max(@, row.id.i)],
                        1, row.id.i, <<>>)
            : row \in {[raw EXCEPT !.id = I(IF raw.id.t = "int" THEN raw.id.i
                                            ELSE auto)]} })
          : raw \in {[c \in DOMAIN def |->
                        IF c \in DOMAIN data THEN ApplyAffinity(def[c].aff, data[c])
                        ELSE def[c].dflt]} })

ExecUpdate(p, db, stmt, binds) ==
    LET t == stmt.table
        def == TableDefs(p)[t]
        data == binds.set
        matched == IF stmt.hasWhere
                   THEN {r \in db.tabs[t] : Matches(def, binds.where, r)}
                   ELSE db.tabs[t]
        new(r) == [c \in DOMAIN def |->
                     IF c \in DOMAIN data THEN ApplyAffinity(def[c].aff, data[c])
                     ELSE r[c]]
    IN  Only({
          IF \E r \in matched : final[r].id.t # "int"
          THEN Failure("IntegrityError", db)
          ELSE IF \E r \in matched : \E c \in DOMAIN def :
                    def[c].notnull /\ IsNull(final[r][c])
               THEN Failure("IntegrityError", db)
          ELSE IF \E r1 \in matched : \E r2 \in db.tabs[t] : \E c \in DOMAIN def :
                    /\ r1 # r2
                    /\ def[c].unique
                    /\ ~IsNull(final[r1][c])
                    /\ final[r1][c] = final[r2][c]
               THEN Failure("IntegrityError", db)
          ELSE Result("none",
                      [db EXCEPT !.tabs[t] = {final[r] : r \in db.tabs[t]}],
                      Cardinality(matched), 0, <<>>)
          : final \in {[r \in db.tabs[t] |-> IF r \in matched THEN new(r) ELSE r]} })

ExecDelete(p, db, stmt, binds) ==
    LET t == stmt.table
        def == TableDefs(p)[t]
        matched == IF stmt.hasWhere
                   THEN {r \in db.tabs[t] : Matches(def, binds.where, r)}
                   ELSE db.tabs[t]
    IN  Result("none", [db EXCEPT !.tabs[t] = @ \ matched],
               Cardinality(matched), 0, <<>>)

\* the text after LIMIT: an integer literal (negative: no limit), or a
\* literal followed by an OFFSET clause
LimitCount(text, n) ==
    CASE text = "" -> n
      [] text = "1 OFFSET 1" -> 1
      [] LooksNumeric(text) -> IF TextToInt(text) < 0 THEN n ELSE TextToInt(text)
      [] OTHER -> n

LimitOffset(text) == IF text = "1 OFFSET 1" THEN 1 ELSE 0

LimitParses(text) == text = "" \/ text = "1 OFFSET 1" \/ LooksNumeric(text)

Min(a, b) == IF a <= b THEN a ELSE b

ExecSelect(p, db, stmt, binds) ==
    LET t == stmt.table
        def == TableDefs(p)[t]
        matched == IF stmt.hasWhere
                   THEN {r \in db.tabs[t] : Matches(def, binds.where, r)}
                   ELSE db.tabs[t]
        all == SortById(matched)
        off == Min(LimitOffset(stmt.limit), Len(all))
        cnt == Min(LimitCount(stmt.limit, Len(all)), Len(all) - off)
    IN  IF ~LimitParses(stmt.limit) THEN Failure("OperationalError", db)
        ELSE Result("none", db, -1, 0, SubSeq(all, off + 1, off + cnt))

\* self.connection.cursor() and cursor.execute(query, parameters): None has
\* no cursor(), a closed connection raises sqlite3.ProgrammingError, and on
\* a file SQLite cannot use every statement raises sqlite3.DatabaseError
Execute(p, db, stmt, binds) ==
    Only({ IF x.db.conn = "none" THEN Failure("AttributeError", x.db)
           ELSE IF x.db.conn = "closed" THEN Failure("ProgrammingError", x.db)
           ELSE IF x.db.conn = "broken" THEN Failure("DatabaseError", x.db)
           ELSE IF PrepareError(p, x.db, x.stmt) THEN Failure("OperationalError", x.db)
           ELSE CASE x.stmt.verb = "INSERT" -> ExecInsert(p, x.db, x.stmt, x.binds)
                  [] x.stmt.verb = "UPDATE" -> ExecUpdate(p, x.db, x.stmt, x.binds)
                  [] x.stmt.verb = "DELETE" -> ExecDelete(p, x.db, x.stmt, x.binds)
                  [] x.stmt.verb = "SELECT" -> ExecSelect(p, x.db, x.stmt, x.binds)
           : x \in {[db |-> db, stmt |-> stmt, binds |-> binds]} })


\* what a statement on the table raises before it reads a row: None has no
\* cursor(), a closed connection and a missing table are errors of sqlite3
ReadError(db, table) ==
    CASE db.conn = "none" -> "AttributeError"
      [] db.conn = "closed" -> "ProgrammingError"
      [] db.conn = "broken" -> "DatabaseError"
      [] table \notin db.schema -> "OperationalError"
      [] OTHER -> "none"

(***************************************************************************)
(* DatabaseManager (basic_database.py; crud_operations.py carries a copy). *)
(* Each method returns its outcome: the statement it sent, the exception   *)
(* it raised ("none" when it returned), its return value and the database  *)
(* after the call.                                                         *)
(***************************************************************************)
NoBinds == <<>>

\* Python truth value and str() of an argument
PyTruthy(v) ==
    ~(v.t = "null" \/ (v.t = "int" /\ v.i = 0) \/ (v.t = "text" /\ v.s = ""))

PyStr(v) == IF v.t = "int" THEN ToString(v.i) ELSE v.s

\* execute, then connection.commit() unless the statement raised or only read
Outcome(stmt, binds, res, ret) ==
    [stmt |-> stmt, binds |-> binds,
     sent |-> res.exc \notin {"AttributeError", "ProgrammingError"},
     exc |-> res.exc,
     ret |-> IF res.exc = "none" THEN ret ELSE -1,
     rows |-> res.rows, tabs |-> res.tabs, seq |-> res.seq,
     commit |-> res.exc = "none" /\ stmt.verb # "SELECT",
     top |-> <<>>, msg |-> ""]

\* insert_record without connection.commit()
insert_record_NoCommit(p, db, table, data) ==
    LET stmt == [verb |-> "INSERT", table |-> table, cols |-> DOMAIN data,
                 hasWhere |-> FALSE, where |-> {}, limit |-> ""]
        binds == [set |-> data, where |-> NoBinds]
    IN  Only({ [Outcome(stmt, binds, res, res.lastrowid) EXCEPT !.commit = FALSE]
               : res \in {Execute(p, db, stmt, binds)} })

insert_record(p, db, table, data) ==
    LET stmt == [verb |-> "INSERT", table |-> table, cols |-> DOMAIN data,
                 hasWhere |-> FALSE, where |-> {}, limit |-> ""]
        binds == [set |-> data, where |-> NoBinds]
    IN  Only({ Outcome(stmt, binds, res, res.lastrowid)
               : res \in {Execute(p, db, stmt, binds)} })

\* select_records with the WHERE clause left out
select_records_NoWhere(p, db, table, conditions, limit) ==
    LET stmt == [verb |-> "SELECT", table |-> table, cols |-> {},
                 hasWhere |-> FALSE, where |-> {},
                 limit |-> IF PyTruthy(limit) THEN PyStr(limit) ELSE ""]
        binds == [set |-> NoBinds, where |-> NoBinds]
    IN  Only({ Outcome(stmt, binds, res, Len(res.rows))
               : res \in {Execute(p, db, stmt, binds)} })

select_records(p, db, table, conditions, limit) ==
    LET stmt == [verb |-> "SELECT", table |-> table, cols |-> {},
                 hasWhere |-> DOMAIN conditions # {},
                 where |-> DOMAIN conditions,
                 limit |-> IF PyTruthy(limit) THEN PyStr(limit) ELSE ""]
        binds == [set |-> NoBinds, where |-> conditions]
    IN  Only({ Outcome(stmt, binds, res, Len(res.rows))
               : res \in {Execute(p, db, stmt, binds)} })

\* update_record with the WHERE clause left out
update_record_NoWhere(p, db, table, data, conditions) ==
    LET stmt == [verb |-> "UPDATE", table |-> table, cols |-> DOMAIN data,
                 hasWhere |-> FALSE, where |-> {}, limit |-> ""]
        binds == [set |-> data, where |-> NoBinds]
    IN  Only({ Outcome(stmt, binds, res, res.rowcount)
               : res \in {Execute(p, db, stmt, binds)} })

update_record(p, db, table, data, conditions) ==
    LET stmt == [verb |-> "UPDATE", table |-> table, cols |-> DOMAIN data,
                 hasWhere |-> TRUE, where |-> DOMAIN conditions, limit |-> ""]
        binds == [set |-> data, where |-> conditions]
    IN  Only({ Outcome(stmt, binds, res, res.rowcount)
               : res \in {Execute(p, db, stmt, binds)} })

\* delete_record with the WHERE clause left out
delete_record_NoWhere(p, db, table, conditions) ==
    LET stmt == [verb |-> "DELETE", table |-> table, cols |-> {},
                 hasWhere |-> FALSE, where |-> {}, limit |-> ""]
        binds == [set |-> NoBinds, where |-> NoBinds]
    IN  Only({ Outcome(stmt, binds, res, res.rowcount)
               : res \in {Execute(p, db, stmt, binds)} })

\* delete_record that adds the WHERE clause only for conditions that are not
\* empty, as select_records does
delete_record_OptionalWhere(p, db, table, conditions) ==
    LET stmt == [verb |-> "DELETE", table |-> table, cols |-> {},
                 hasWhere |-> DOMAIN conditions # {},
                 where |-> DOMAIN conditions, limit |-> ""]
        binds == [set |-> NoBinds, where |-> conditions]
    IN  Only({ Outcome(stmt, binds, res, res.rowcount)
               : res \in {Execute(p, db, stmt, binds)} })

delete_record(p, db, table, conditions) ==
    LET stmt == [verb |-> "DELETE", table |-> table, cols |-> {},
                 hasWhere |-> TRUE, where |-> DOMAIN conditions, limit |-> ""]
        binds == [set |-> NoBinds, where |-> conditions]
    IN  Only({ Outcome(stmt, binds, res, res.rowcount)
               : res \in {Execute(p, db, stmt, binds)} })

\* create_tables with DROP TABLE before every CREATE TABLE
create_tables_DropFirst(p, db) ==
    [db EXCEPT !.schema = @ \cup TableNames(p),
               !.tabs = [t \in AllTables |-> IF t \in TableNames(p) THEN {} ELSE @[t]]]

\* CREATE TABLE IF NOT EXISTS for every table of the program, then commit
create_tables(p, db) == [db EXCEPT !.schema = @ \cup TableNames(p)]

(***************************************************************************)
(* The arguments the callers are drawn from.                               *)
(***************************************************************************)
Hostile == "x'; DROP TABLE users;--"

UserData ==
    {[username |-> T("alice"), email |-> T("a@x.com"), full_name |-> T("Alice")],
     [username |-> T("alice"), email |-> T("c@x.com"), full_name |-> T("Al")],
     [username |-> I(7), email |-> T("7@x.com"), full_name |-> T("Seven")],
     [username |-> T("dave")]}

ProductData ==
    {[name |-> T("Widget"), price |-> I(9), category |-> T("Tools"),
      stock_quantity |-> I(8)],
     [name |-> T(Hostile), price |-> T("9")],
     [id |-> I(1), name |-> T("Widget"), price |-> I(9)]}

OrderData ==
    {[user_id |-> I(1), product_id |-> I(1), quantity |-> I(2),
      total_price |-> I(8)],
     [user_id |-> I(99), product_id |-> I(98), quantity |-> I(1),
      total_price |-> I(5)]}

InsertArgs ==
    ({"users"} \X (UserData \cup {NoBinds}))
      \cup ({"products"} \X ProductData)
      \cup ({"orders"} \X OrderData)

UserConds ==
    {[id |-> I(1)], [id |-> I(2)], [role |-> T("user")], [is_active |-> I(1)],
     NoBinds}

ProductConds == {[id |-> I(1)], [id |-> T("1")], [category |-> Null]}

OrderConds == {[id |-> I(1)]}

CondArgs ==
    ({"users"} \X UserConds) \cup ({"products"} \X ProductConds)
      \cup ({"orders"} \X OrderConds)

UserChanges ==
    {[username |-> T("alice")], [email |-> T("b@x.com"), role |-> T("admin")],
     [id |-> I(2)], NoBinds}

ProductChanges == {[price |-> I(5)]}

OrderChanges == {[status |-> T("completed")]}

UpdateArgs ==
    ({"users"} \X UserChanges \X UserConds)
      \cup ({"products"} \X ProductChanges \X ProductConds)
      \cup ({"orders"} \X OrderChanges \X OrderConds)

Limits == {Null, I(0), I(1), T("1 OFFSET 1")}

\* select_records(table, conditions) and select_records(table, limit=n)
SelectArgs ==
    {<<a[1], a[2], Null>> : a \in CondArgs}
      \cup {<<t, NoBinds, l>> : t \in {"users", "products"}, l \in Limits}

(***************************************************************************)
(* Helpers shared by the handlers that run several statements.             *)
(***************************************************************************)
DbOf(db, res) == [db EXCEPT !.tabs = res.tabs, !.seq = res.seq]

\* the end of a block of statements closed by one connection.commit(): the
\* commit is reached when no statement raised
Done(exc, db) == [exc |-> exc, db |-> db, commit |-> exc = "none"]

InsertStmt(table, cols) ==
    [verb |-> "INSERT", table |-> table, cols |-> cols, hasWhere |-> FALSE,
     where |-> {}, limit |-> ""]

UpdateStmt(table, cols, where) ==
    [verb |-> "UPDATE", table |-> table, cols |-> cols, hasWhere |-> TRUE,
     where |-> where, limit |-> ""]

\* cursor.execute(...) inside a try block: the exception that ends the
\* block with the database as the earlier statements left it, or "none" and
\* the database the statement leaves
Step(p, db, stmt, binds) ==
    Only({ IF res.exc # "none" THEN Done(res.exc, db)
           ELSE Done("none", DbOf(db, res))
           : res \in {Execute(p, db, stmt, binds)} })

\* cursor.executemany("INSERT INTO t (...) VALUES (...)", rows)
RECURSIVE executemany(_, _, _, _, _)
executemany(p, db, table, rows, k) ==
    IF k > Len(rows) THEN Done("none", db)
    ELSE Only({ IF r.exc # "none" THEN r
                ELSE executemany(p, r.db, table, rows, k + 1)
                : r \in {Step(p, db, InsertStmt(table, DOMAIN rows[k]),
                              [set |-> rows[k], where |-> NoBinds])} })

\* entry.get().strip() for the texts typed in the forms
PyStrip(x) ==
    CASE x = " " -> ""
      [] x = " Eve " -> "Eve"
      [] OTHER -> x

\* float(text) of the price fields, in cents; texts outside raise ValueError
FloatTexts ==
    ("1.50" :> 150) @@ ("1099.99" :> 109999) @@ ("-5" :> -500) @@ ("0" :> 0)
      @@ ("20" :> 2000)

\* int(text) of the stock and quantity fields; texts outside raise ValueError
IntTexts ==
    ("10" :> 10) @@ ("50" :> 50) @@ ("3" :> 3) @@ ("0" :> 0) @@ ("-1" :> -1)
      @@ ("1000" :> 1000) @@ ("500" :> 500)

PyFloatOk(x) == x \in DOMAIN FloatTexts
PyFloat(x) == FloatTexts[x]
PyIntOk(x) == x \in DOMAIN IntTexts
PyInt(x) == IntTexts[x]

NoStmt ==
    [verb |-> "", table |-> "", cols |-> {}, hasWhere |-> FALSE, where |-> {},
     limit |-> ""]

\* a handler that returns before any statement is sent
Unsent(db, msg) ==
    [stmt |-> NoStmt, binds |-> [set |-> NoBinds, where |-> NoBinds],
     sent |-> FALSE, exc |-> "none", ret |-> -1, rows |-> <<>>,
     tabs |-> db.tabs, seq |-> db.seq, commit |-> FALSE, top |-> <<>>,
     msg |-> msg]

\* a handler that only reads: the rows it shows
Shown(db, rows, top) ==
    [stmt |-> NoStmt, binds |-> [set |-> NoBinds, where |-> NoBinds],
     sent |-> TRUE, exc |-> "none", ret |-> Len(rows), rows |-> rows,
     tabs |-> db.tabs, seq |-> db.seq, commit |-> FALSE, top |-> top,
     msg |-> ""]


(***************************************************************************)
(* BasicDatabaseDemo (basic_database.py): the demo window around           *)
(* DatabaseManager.                                                        *)
(***************************************************************************)
BasicSampleUsers ==
    << [username |-> T("admin"), email |-> T("admin@example.com"),
        full_name |-> T("Administrator"), role |-> T("admin")],
       [username |-> T("john_doe"), email |-> T("john@example.com"),
        full_name |-> T("John Doe"), role |-> T("user")],
       [username |-> T("jane_smith"), email |-> T("jane@example.com"),
        full_name |-> T("Jane Smith"), role |-> T("user")] >>

BasicSampleProducts ==
    << [name |-> T("Laptop"), description |-> T("High-performance laptop"),
        price |-> I(99999), category |-> T("Electronics"), stock_quantity |-> I(10)],
       [name |-> T("Mouse"), description |-> T("Wireless mouse"),
        price |-> I(2999), category |-> T("Electronics"), stock_quantity |-> I(50)],
       [name |-> T("Desk Chair"), description |-> T("Ergonomic office chair"),
        price |-> I(19999), category |-> T("Furniture"), stock_quantity |-> I(5)] >>

\* for row in rows: self.db_manager.insert_record(table, row); the first
\* exception ends the loop; c tells whether the rows so far were committed
RECURSIVE insert_each(_, _, _, _, _, _)
insert_each(p, db, table, rows, k, c) ==
    IF k > Len(rows) THEN [exc |-> "none", db |-> db, commit |-> c]
    ELSE Only({ IF out.exc # "none" THEN [exc |-> out.exc, db |-> db, commit |-> c]
                ELSE Only({ insert_each(p, d, table, rows, k + 1, out.commit)
                            : d \in {DbOf(db, out)} })
                : out \in {insert_record(p, db, table, rows[k])} })

\* BasicDatabaseDemo.load_sample_data: nothing when a user exists, else the
\* sample users and the sample products; every exception is logged
BasicDatabaseDemo_load_sample_data(db) ==
    Only({ IF users.exc # "none" THEN [exc |-> users.exc, db |-> db, commit |-> FALSE]
           ELSE IF users.rows # <<>> THEN [exc |-> "none", db |-> db, commit |-> FALSE]
           ELSE Only({ IF u.exc # "none" THEN u
                       ELSE insert_each("basic", u.db, "products",
                                        BasicSampleProducts, 1, u.commit)
                       : u \in {insert_each("basic", db, "users",
                                            BasicSampleUsers, 1, FALSE)} })
           : users \in {select_records("basic", db, "users", NoBinds, I(1))} })

\* add_user that shows its success dialog whatever insert_record did
BasicDatabaseDemo_add_user_AlwaysSuccess(db, usernameText, emailText, fullNameText) ==
    Only({ [out EXCEPT !.msg = "Success"]
           : out \in {insert_record("basic", db, "users",
                        [username |-> T(PyStrip(usernameText)),
                         email |-> T(PyStrip(emailText)),
                         full_name |-> T(PyStrip(fullNameText)),
                         role |-> T("user"), is_active |-> I(1)])} })

\* BasicDatabaseDemo.add_user: the Add User form
BasicDatabaseDemo_add_user(db, usernameText, emailText, fullNameText) ==
    LET username == PyStrip(usernameText)
        email == PyStrip(emailText)
        full_name == PyStrip(fullNameText)
    IN  IF username = "" \/ email = "" \/ full_name = ""
        THEN Unsent(db, "Validation Error")
        ELSE Only({ [out EXCEPT
                       !.msg = CASE out.exc = "none" -> "Success"
                                 [] out.exc = "IntegrityError" ->
                                      "Username or email already exists"
                                 [] OTHER -> "Failed to add user"]
                    : out \in {insert_record("basic", db, "users",
                                 [username |-> T(username), email |-> T(email),
                                  full_name |-> T(full_name), role |-> T("user"),
                                  is_active |-> I(1)])} })

BasicUserForms ==
    {<<" Eve ", "eve@example.com", "Eve Adams">>,
     <<"admin", "second@example.com", "Second Admin">>,
     <<"erin", " ", "Erin">>}

\* disconnect that closes only a connection that is open, and raises on one
\* that is closed
disconnect_Strict(c) ==
    CASE c = "none" -> [exc |-> "none", conn |-> "none"]
      [] c = "closed" -> [exc |-> "ProgrammingError", conn |-> "closed"]
      [] OTHER -> [exc |-> "none", conn |-> "closed"]

\* DatabaseManager.disconnect: if self.connection: self.connection.close();
\* closing a closed connection does nothing
disconnect(c) ==
    [exc |-> "none", conn |-> IF c = "none" THEN "none" ELSE "closed"]

\* CRUDOperationsApp.on_closing: self.demo.db_manager.connection.close()
connection_close(c) ==
    IF c = "none" THEN [exc |-> "AttributeError", conn |-> "none"]
    ELSE [exc |-> "none", conn |-> "closed"]


(***************************************************************************)
(* State and actions.                                                      *)
(***************************************************************************)
DB == [schema |-> schema, tabs |-> tabs, seq |-> seq, conn |-> conn]

NoCall ==
    [op |-> "none", table |-> "", data |-> NoBinds, conds |-> NoBinds,
     limit |-> Null, stmt |-> NoStmt, binds |-> [set |-> NoBinds, where |-> NoBinds],
     sent |-> FALSE, exc |-> "none", ret |-> -1, rows |-> <<>>, commit |-> FALSE,
     top |-> <<>>, msg |-> "", pre |-> EmptyTabs, preSchema |-> {},
     preConn |-> "none"]

Call(op, table, data, conds, limit, out) ==
    [op |-> op, table |-> table, data |-> data, conds |-> conds, limit |-> limit,
     stmt |-> out.stmt, binds |-> out.binds, sent |-> out.sent, exc |-> out.exc,
     ret |-> out.ret, rows |-> out.rows, commit |-> out.commit,
     top |-> out.top, msg |-> out.msg,
     pre |-> tabs, preSchema |-> schema, preConn |-> conn]

\* a step that is not a call of a handler: what it was and what it met
Event(op, exc, msg) ==
    [NoCall EXCEPT !.op = op, !.exc = exc, !.msg = msg, !.pre = tabs,
                   !.preSchema = schema, !.preConn = conn]

\* what the file holds after a call: connection.commit() writes the rows
\* of the connection
Committed(commit, db) ==
    IF commit THEN [tabs |-> db.tabs, seq |-> db.seq] ELSE disk

\* the window as its constructor starts: of the professional dashboard
\* before anybody has logged in; running, interval_var and cpu_history of
\* the system monitor; current_record, the selection of the table and the
\* two buttons of the CRUD demo (0: None, nothing selected)
RtIdle ==
    [page |-> "login", user |-> "", auto |-> TRUE, pc |-> "check", queue |-> 0,
     ui |-> "idle", timer |-> "idle", form |-> <<>>,
     running |-> FALSE, interval |-> "1000", cpu_history |-> <<>>,
     current_record |-> 0, selection |-> 0,
     create_btn |-> "normal", update_btn |-> "disabled"]

\* sqlite3.connect(db_path): opens (and creates) the file, or raises when
\* the file cannot be opened, and the exception is reported in a dialog and
\* the connection stays None; or opens a file that SQLite then cannot use
\* (not a database, locked by another process)
ConnectOutcomes == {"open", "none", "broken"}

\* the connection another program or script opens on the file
OwnConnection == IF conn = "broken" THEN "broken" ELSE "open"

\* a program started on a new database file: connect() has run
Boot(p) ==
    /\ prog = p
    /\ phase = "connected"
    /\ conn \in ConnectOutcomes
    /\ schema = {}
    /\ tabs = EmptyTabs
    /\ seq = ZeroSeq
    /\ disk = [tabs |-> EmptyTabs, seq |-> ZeroSeq]
    /\ nops = 0
    /\ last = NoCall
    /\ rt = RtIdle

Init == Boot("basic")

\* the program is started again on its file: the earlier process is gone
\* with whatever it had not committed, connect() runs
Start ==
    /\ phase \in {"ready", "closed", "crashed"}
    /\ nops < MaxOps
    /\ phase' = "connected"
    /\ conn' \in ConnectOutcomes
    /\ tabs' = disk.tabs
    /\ seq' = disk.seq
    /\ nops' = nops + 1
    /\ last' = Event("start", "none", "")
    /\ rt' = RtIdle
    /\ UNCHANGED <<prog, schema, disk>>

Managers == {"basic", "crud"}

\* DatabaseManager.__init__: create_tables().  On None the first line
\* raises AttributeError, which "except sqlite3.Error" lets through: the
\* constructor ends with it.  An error of sqlite3 is shown in a dialog and
\* the constructor returns
CreateTables ==
    /\ prog \in Managers
    /\ phase = "connected"
    /\ CASE conn = "none" ->
              /\ phase' = "crashed"
              /\ last' = Event("create_tables", "AttributeError", "")
              /\ UNCHANGED <<schema, tabs, seq, disk>>
         [] conn = "broken" ->
              /\ phase' = IF prog = "basic" THEN "tables" ELSE "ready"
              /\ last' = Event("create_tables", "DatabaseError",
                               "Failed to create tables")
              /\ UNCHANGED <<schema, tabs, seq, disk>>
         [] OTHER ->
              \E db \in {create_tables(prog, DB)} :
                /\ schema' = db.schema
                /\ tabs' = db.tabs
                /\ seq' = db.seq
                /\ disk' = Committed(TRUE, db)
                /\ phase' = IF prog = "basic" THEN "tables" ELSE "ready"
                /\ last' = Event("create_tables", "none", "")
    /\ UNCHANGED <<prog, conn, nops, rt>>

\* BasicDatabaseDemo.__init__: load_sample_data()
LoadSampleData ==
    /\ prog = "basic"
    /\ phase = "tables"
    /\ \E out \in {BasicDatabaseDemo_load_sample_data(DB)} :
           /\ tabs' = out.db.tabs
           /\ seq' = out.db.seq
           /\ disk' = Committed(out.commit, out.db)
           /\ last' = [Event("load_sample_data", out.exc, "") EXCEPT
                         !.sent = TRUE, !.commit = out.commit]
    /\ phase' = "ready"
    /\ UNCHANGED <<prog, conn, schema, nops, rt>>

\* a call of a method or handler, and what it leaves
Handled(op, table, data, conds, limit, out) ==
    /\ tabs' = out.tabs
    /\ seq' = out.seq
    /\ disk' = Committed(out.commit, out)
    /\ last' = Call(op, table, data, conds, limit, out)
    /\ nops' = nops + 1
    /\ UNCHANGED <<prog, phase, conn, schema, rt>>

ManagerReady ==
    /\ prog \in Managers
    /\ phase = "ready"
    /\ nops < MaxOps

InsertRecord(table, data) ==
    /\ ManagerReady
    /\ \E out \in {insert_record(prog, DB, table, data)} :
           Handled("insert", table, data, NoBinds, Null, out)

SelectRecords(table, conds, limit) ==
    /\ ManagerReady
    /\ \E out \in {select_records(prog, DB, table, conds, limit)} :
           Handled("select", table, NoBinds, conds, limit, out)

UpdateRecord(table, data, conds) ==
    /\ ManagerReady
    /\ \E out \in {update_record(prog, DB, table, data, conds)} :
           Handled("update", table, data, conds, Null, out)

DeleteRecord(table, conds) ==
    /\ ManagerReady
    /\ \E out \in {delete_record(prog, DB, table, conds)} :
           Handled("delete", table, NoBinds, conds, Null, out)

AddUser(f) ==
    /\ prog = "basic"
    /\ phase = "ready"
    /\ nops < MaxOps
    /\ \E out \in {BasicDatabaseDemo_add_user(DB, f[1], f[2], f[3])} :
           Handled("add_user", "users", out.binds.set, NoBinds, Null, out)

\* DatabaseManager.disconnect, called on the manager any number of times
Disconnect ==
    /\ prog \in Managers
    /\ phase = "ready"
    /\ nops < MaxOps
    /\ \E out \in {disconnect(conn)} :
           /\ conn' = out.conn
           /\ last' = Event("disconnect", out.exc, "")
    /\ nops' = nops + 1
    /\ UNCHANGED <<prog, phase, schema, tabs, seq, disk, rt>>

\* on_closing of the window: BasicDatabaseApp calls disconnect(),
\* CRUDOperationsApp closes the connection itself; then root.destroy()
OnClosing ==
    /\ prog \in Managers
    /\ phase = "ready"
    /\ nops < MaxOps
    /\ \E out \in {IF prog = "basic" THEN disconnect(conn) ELSE connection_close(conn)} :
           /\ conn' = out.conn
           /\ last' = Event("on_closing", out.exc, "")
    /\ phase' = "closed"
    /\ nops' = nops + 1
    /\ UNCHANGED <<prog, schema, tabs, seq, disk, rt>>

Next ==
    \/ Start
    \/ CreateTables
    \/ LoadSampleData
    \/ \E a \in InsertArgs : InsertRecord(a[1], a[2])
    \/ \E a \in SelectArgs : SelectRecords(a[1], a[2], a[3])
    \/ \E a \in UpdateArgs : UpdateRecord(a[1], a[2], a[3])
    \/ \E a \in CondArgs : DeleteRecord(a[1], a[2])
    \/ \E f \in BasicUserForms : AddUser(f)
    \/ Disconnect
    \/ OnClosing

Spec == Init /\ [][Next]_vars

(***************************************************************************)
(* DatabaseDashboard (database_dashboard.py), on dashboard_data.db.        *)
(* Prices are kept in cents.                                               *)
(***************************************************************************)
SeedOrders == 2      \* sample orders written by load_sample_data (range(20))

SampleUsers ==
    << [name |-> T("John Doe"), email |-> T("john@example.com"), role |-> T("admin")],
       [name |-> T("Jane Smith"), email |-> T("jane@example.com"), role |-> T("user")],
       [name |-> T("Bob Johnson"), email |-> T("bob@example.com"), role |-> T("user")],
       [name |-> T("Alice Brown"), email |-> T("alice@example.com"), role |-> T("manager")] >>

SampleProducts ==
    << [name |-> T("Laptop"), category |-> T("Electronics"), price |-> I(99999), stock |-> I(50)],
       [name |-> T("Mouse"), category |-> T("Electronics"), price |-> I(2999), stock |-> I(100)],
       [name |-> T("Desk Chair"), category |-> T("Furniture"), price |-> I(19999), stock |-> I(25)],
       [name |-> T("Coffee Mug"), category |-> T("Kitchen"), price |-> I(999), stock |-> I(200)],
       [name |-> T("Notebook"), category |-> T("Office"), price |-> I(599), stock |-> I(150)] >>

\* (user_id, product_id, quantity) of one sample order: the ends of
\* randint(1, 4), randint(1, 5), randint(1, 5), and one draw in between
SeedPicks == {<<1, 1, 1>>, <<4, 5, 5>>, <<2, 4, 1>>}

\* the draws of one run of the loop, listed by user id: another order of the
\* same draws gives the same orders under other ids
SeedRuns ==
    { p \in [1 .. SeedOrders -> SeedPicks] :
        \A i \in 1 .. SeedOrders - 1 : p[i][1] <= p[i + 1][1] }

TopLimit == 5        \* LIMIT 5 of the top selling products
RecentLimit == 10    \* LIMIT 10 of the recent orders

seed_users(db) ==
    IF db.tabs.users = {}
    THEN executemany("dashboard", db, "users", SampleUsers, 1)
    ELSE Done("none", db)

seed_products(db) ==
    IF db.tabs.products = {}
    THEN executemany("dashboard", db, "products", SampleProducts, 1)
    ELSE Done("none", db)

\* the loop "for _ in range(20)": price looked up, total_price = price * quantity
RECURSIVE seed_orders(_, _, _)
seed_orders(db, picks, k) ==
    IF k > Len(picks) THEN Done("none", db)
    ELSE LET found == {r \in db.tabs.products : SqlEq("INTEGER", r.id, I(picks[k][2]))}
         IN  IF found = {} THEN Done("TypeError", db)   \* None['price']
             ELSE Only({ IF r.exc # "none" THEN r
                         ELSE seed_orders(r.db, picks, k + 1)
                         : r \in {Step("dashboard", db,
                                    InsertStmt("orders", {"user_id", "product_id",
                                                          "quantity", "total_price",
                                                          "order_date"}),
                                    [set |-> [user_id |-> I(picks[k][1]),
                                              product_id |-> I(picks[k][2]),
                                              quantity |-> I(picks[k][3]),
                                              total_price |->
                                                I((Only(found)).price.i * picks[k][3]),
                                              order_date |-> Now],
                                     where |-> NoBinds])} })

load_sample_data(db, picks) ==
    Only({ IF u.exc # "none" THEN u
           ELSE Only({ IF p.exc # "none" THEN p
                       ELSE IF p.db.tabs.orders = {} THEN seed_orders(p.db, picks, 1)
                       ELSE p
                       : p \in {seed_products(u.db)} })
           : u \in {seed_users(db)} })

\* FROM orders o JOIN users u ON o.user_id = u.id
\*               JOIN products p ON o.product_id = p.id
JoinedOrders(db) ==
    { [id |-> x[1].id, user_name |-> x[2].name, product_name |-> x[3].name,
       quantity |-> x[1].quantity, total_price |-> x[1].total_price,
       order_date |-> x[1].order_date]
      : x \in { y \in db.tabs.orders \X db.tabs.users \X db.tabs.products :
                  /\ SqlEq("INTEGER", y[2].id, y[1].user_id)
                  /\ SqlEq("INTEGER", y[3].id, y[1].product_id) } }

\* refresh_orders_table: every joined row, ORDER BY o.order_date DESC (the
\* sample orders carry one date; rows of one date are shown in id order)
refresh_orders_table(db) ==
    IF ReadError(db, "orders") # "none"
    THEN [Shown(db, <<>>, <<>>) EXCEPT !.exc = ReadError(db, "orders"),
                                      !.msg = "Database Error"]
    ELSE Shown(db, SortById(JoinedOrders(db)), <<>>)

RECURSIVE SumQuantity(_)
SumQuantity(orders) ==
    IF orders = {} THEN 0
    ELSE LET o == CHOOSE x \in orders : TRUE
         IN  o.quantity.i + SumQuantity(orders \ {o})

\* FROM orders o JOIN products p ON o.product_id = p.id GROUP BY p.id, p.name
SoldByProduct(db) ==
    { [id |-> p.id, name |-> p.name,
       total_sold |-> SumQuantity({o \in db.tabs.orders :
                                     SqlEq("INTEGER", p.id, o.product_id)})]
      : p \in { q \in db.tabs.products :
                  \E o \in db.tabs.orders : SqlEq("INTEGER", q.id, o.product_id) } }

\* ORDER BY total_sold DESC (groups of one total in id order)
RECURSIVE SortBySold(_)
SortBySold(groups) ==
    IF groups = {} THEN <<>>
    ELSE LET m == CHOOSE x \in groups : \A y \in groups :
                     \/ x.total_sold > y.total_sold
                     \/ x.total_sold = y.total_sold /\ x.id.i <= y.id.i
         IN  <<[name |-> m.name, total_sold |-> m.total_sold]>>
               \o SortBySold(groups \ {m})

\* refresh_analytics: the top selling products and the recent orders
refresh_analytics(db) ==
    LET sold == SortBySold(SoldByProduct(db))
        joined == SortById(JoinedOrders(db))
        recent == [k \in 1 .. Min(RecentLimit, Len(joined)) |->
                     [user_name |-> joined[k].user_name,
                      product_name |-> joined[k].product_name,
                      quantity |-> joined[k].quantity,
                      total_price |-> joined[k].total_price,
                      order_date |-> joined[k].order_date]]
    IN  IF ReadError(db, "orders") # "none"
        THEN [Shown(db, <<>>, <<>>) EXCEPT !.exc = ReadError(db, "orders"),
                                          !.msg = "Database Error"]
        ELSE Shown(db, recent, SubSeq(sold, 1, Min(TopLimit, Len(sold))))

\* add_user: the Users tab form
add_user(db, nameText, emailText, role) ==
    LET name == PyStrip(nameText)
        email == PyStrip(emailText)
        stmt == InsertStmt("users", {"name", "email", "role"})
        binds == [set |-> [name |-> T(name), email |-> T(email), role |-> T(role)],
                  where |-> NoBinds]
    IN  IF name = "" \/ email = "" THEN Unsent(db, "Validation Error")
        ELSE Only({ [Outcome(stmt, binds, res, res.lastrowid) EXCEPT
                       !.msg = CASE res.exc = "none" -> "Success"
                                 [] res.exc = "IntegrityError" -> "Email already exists"
                                 [] OTHER -> "Database Error"]
                    : res \in {Execute("dashboard", db, stmt, binds)} })

\* add_product: the Products tab form
add_product(db, nameText, categoryText, priceText, stockText) ==
    LET name == PyStrip(nameText)
        category == PyStrip(categoryText)
        price == PyStrip(priceText)
        stock == PyStrip(stockText)
        stmt == InsertStmt("products", {"name", "category", "price", "stock"})
        binds == [set |-> [name |-> T(name), category |-> T(category),
                           price |-> I(PyFloat(price)), stock |-> I(PyInt(stock))],
                  where |-> NoBinds]
    IN  IF name = "" \/ category = "" \/ price = "" \/ stock = ""
        THEN Unsent(db, "Validation Error")
        ELSE IF ~PyFloatOk(price) \/ ~PyIntOk(stock)
        THEN [Unsent(db, "Validation Error") EXCEPT !.exc = "ValueError"]
        ELSE Only({ [Outcome(stmt, binds, res, res.lastrowid) EXCEPT
                       !.msg = IF res.exc = "none" THEN "Success" ELSE "Database Error"]
                    : res \in {Execute("dashboard", db, stmt, binds)} })

\* edit_user, save_changes: the Save button of the Edit User dialog
edit_user_save_changes(db, user_id, nameText, emailText, role) ==
    LET stmt == UpdateStmt("users", {"name", "email", "role"}, {"id"})
        binds == [set |-> [name |-> T(PyStrip(nameText)),
                           email |-> T(PyStrip(emailText)), role |-> T(role)],
                  where |-> [id |-> I(user_id)]]
    IN  Only({ [Outcome(stmt, binds, res, res.rowcount) EXCEPT
                  !.msg = CASE res.exc = "none" -> "Success"
                            [] res.exc = "IntegrityError" -> "Email already exists"
                            [] OTHER -> "Database Error"]
               : res \in {Execute("dashboard", db, stmt, binds)} })

\* save_changes that also rewrites the totals of the product's orders
edit_product_save_changes_Reprice(db, product_id, nameText, categoryText, priceText, stockText) ==
    [Unsent(db, "Success") EXCEPT
       !.sent = TRUE, !.ret = 1,
       !.tabs = [db.tabs EXCEPT
                   !.orders = { IF o.product_id = I(product_id) /\ PyFloatOk(PyStrip(priceText))
                                THEN [o EXCEPT !.total_price =
                                        I(PyFloat(PyStrip(priceText)) * o.quantity.i)]
                                ELSE o : o \in @ }]]

\* edit_product, save_changes: the Save button of the Edit Product dialog
edit_product_save_changes(db, product_id, nameText, categoryText, priceText, stockText) ==
    LET price == PyStrip(priceText)
        stock == PyStrip(stockText)
        stmt == UpdateStmt("products", {"name", "category", "price", "stock"}, {"id"})
        binds == [set |-> [name |-> T(PyStrip(nameText)),
                           category |-> T(PyStrip(categoryText)),
                           price |-> I(PyFloat(price)), stock |-> I(PyInt(stock))],
                  where |-> [id |-> I(product_id)]]
    IN  IF ~PyFloatOk(price) \/ ~PyIntOk(stock)
        THEN [Unsent(db, "Validation Error") EXCEPT !.exc = "ValueError"]
        ELSE Only({ [Outcome(stmt, binds, res, res.rowcount) EXCEPT
                       !.msg = IF res.exc = "none" THEN "Success" ELSE "Database Error"]
                    : res \in {Execute("dashboard", db, stmt, binds)} })

\* what is typed in the forms and dialogs of the dashboard
UserForms ==
    {<<" Eve ", "eve@example.com", "user">>,
     <<"Eve", "john@example.com", "user">>,
     <<" ", "eve@example.com", "user">>}

ProductForms ==
    {<<"Pen", "Office", "1.50", "10">>,
     <<"Pen", "Office", "abc", "10">>,
     <<"Pen", " ", "1.50", "10">>,
     <<"Pen", "Office", "-5", "10">>}

UserEdits ==
    {<<1, "John Doe", "john@example.com", "manager">>,
     <<2, "Jane Smith", "john@example.com", "user">>}

ProductEdits ==
    {<<1, "Laptop", "Electronics", "1099.99", "50">>,
     <<5, "Notebook", "Office", "20", "3">>,
     <<5, "Notebook", "Office", "abc", "3">>}

\* rows removed from the file by another client of it
RowsDeleted == {<<"users", 1>>, <<"users", 2>>, <<"products", 5>>}

InitDD == Boot("dashboard")

\* DatabaseDashboard.__init__: create_tables().  On None the first line
\* raises AttributeError, which "except sqlite3.Error" lets through; an
\* error of sqlite3 is shown in a dialog and __init__ goes on
DDCreateTables ==
    /\ prog = "dashboard"
    /\ phase = "connected"
    /\ CASE conn = "none" ->
              /\ phase' = "crashed"
              /\ last' = Event("create_tables", "AttributeError", "")
              /\ UNCHANGED <<schema, tabs, seq, disk>>
         [] conn = "broken" ->
              /\ phase' = "tables"
              /\ last' = Event("create_tables", "DatabaseError",
                               "Failed to create tables")
              /\ UNCHANGED <<schema, tabs, seq, disk>>
         [] OTHER ->
              \E db \in {create_tables(prog, DB)} :
                /\ schema' = db.schema
                /\ tabs' = db.tabs
                /\ seq' = db.seq
                /\ disk' = Committed(TRUE, db)
                /\ phase' = "tables"
                /\ last' = Event("create_tables", "none", "")
    /\ UNCHANGED <<prog, conn, nops, rt>>

\* DatabaseDashboard.__init__: load_sample_data(), then the first refresh
DDLoadSampleData(picks) ==
    /\ prog = "dashboard"
    /\ phase = "tables"
    /\ \E out \in {load_sample_data(DB, picks)} :
           /\ tabs' = out.db.tabs
           /\ seq' = out.db.seq
           /\ disk' = Committed(out.commit, out.db)
           /\ phase' = IF out.exc = "TypeError" THEN "crashed" ELSE "ready"
           /\ last' = [Event("load_sample_data", out.exc, "") EXCEPT
                         !.sent = TRUE, !.commit = out.commit]
    /\ UNCHANGED <<prog, conn, schema, nops, rt>>

DDHandler(op, table, out) ==
    Handled(op, table, out.binds.set, out.binds.where, Null, out)

DDReady ==
    /\ prog = "dashboard"
    /\ phase = "ready"
    /\ nops < MaxOps

DDAddUser(f) ==
    /\ DDReady
    /\ \E out \in {add_user(DB, f[1], f[2], f[3])} : DDHandler("add_user", "users", out)

DDAddProduct(f) ==
    /\ DDReady
    /\ \E out \in {add_product(DB, f[1], f[2], f[3], f[4])} :
           DDHandler("add_product", "products", out)

\* the dialog is opened on a row of the table shown, and is modal
DDEditUser(f) ==
    /\ DDReady
    /\ \E r \in tabs.users : r.id = I(f[1])
    /\ \E out \in {edit_user_save_changes(DB, f[1], f[2], f[3], f[4])} :
           DDHandler("edit_user", "users", out)

DDEditProduct(f) ==
    /\ DDReady
    /\ \E r \in tabs.products : r.id = I(f[1])
    /\ \E out \in {edit_product_save_changes(DB, f[1], f[2], f[3], f[4], f[5])} :
           DDHandler("edit_product", "products", out)

DDRefreshOrders ==
    /\ DDReady
    /\ \E out \in {refresh_orders_table(DB)} :
           DDHandler("refresh_orders_table", "orders", out)

DDRefreshAnalytics ==
    /\ DDReady
    /\ \E out \in {refresh_analytics(DB)} :
           DDHandler("refresh_analytics", "orders", out)

\* DatabaseManager(db_path).delete_record(table, {'id': n}) on the same file
DDDeleteRow(d) ==
    /\ DDReady
    /\ \E out \in {delete_record(prog, [DB EXCEPT !.conn = OwnConnection], d[1],
                                 [id |-> I(d[2])])} :
           DDHandler("delete", d[1], out)

NextDD ==
    \/ Start
    \/ DDCreateTables
    \/ \E picks \in SeedRuns : DDLoadSampleData(picks)
    \/ \E f \in UserForms : DDAddUser(f)
    \/ \E f \in ProductForms : DDAddProduct(f)
    \/ \E f \in UserEdits : DDEditUser(f)
    \/ \E f \in ProductEdits : DDEditProduct(f)
    \/ DDRefreshOrders
    \/ DDRefreshAnalytics
    \/ \E d \in RowsDeleted : DDDeleteRow(d)

SpecDD == InitDD /\ [][NextDD]_vars


(***************************************************************************)
(* The professional dashboard (chapter 10): main.py and the sample data    *)
(* generator sample_data.py, both on professional_dashboard.db.  Prices    *)
(* are kept in cents.                                                      *)
(***************************************************************************)
SampleSales == 1     \* sales written by generate_sales_data (range(100))
SampleMetrics == 1   \* metrics written by generate_system_metrics (24 hours of 8)

\* hashlib.sha256(text.encode()).hexdigest()
Sha256(x) == "sha256(" \o x \o ")"

\* (product, quantity, price) of one sample sale: a sale at each end of
\* randint(1, 10), of the dearest and of the cheapest product
SalePicks == {<<"Laptop Pro X1", 1, 120000>>, <<"USB-C Cable", 10, 1500>>}

\* create_default_admin: exceptions are printed, not raised
create_default_admin(db) ==
    LET stmt == InsertStmt("users", {"username", "password_hash", "email", "role"})
        binds == [set |-> [username |-> T("admin"),
                           password_hash |-> T(Sha256("admin123")),
                           email |-> T("admin@company.com"),
                           role |-> T("admin")],
                  where |-> NoBinds]
    IN  IF \E r \in db.tabs.users : SqlEq("TEXT", r.username, T("admin")) THEN db
        ELSE Only({ DbOf(db, res) : res \in {Execute("professional", db, stmt, binds)} })

\* main.py DatabaseManager.create_tables: the tables, then the default admin
professional_create_tables(db) ==
    Only({ create_default_admin(d) : d \in {create_tables("professional", db)} })

\* SUM(quantity * price)
RECURSIVE SumRevenue(_)
SumRevenue(sales) ==
    IF sales = {} THEN 0
    ELSE LET r == CHOOSE x \in sales : TRUE
         IN  r.quantity.i * r.price.i + SumRevenue(sales \ {r})

RECURSIVE SumPrice(_)
SumPrice(sales) ==
    IF sales = {} THEN 0
    ELSE LET r == CHOOSE x \in sales : TRUE
         IN  r.price.i + SumPrice(sales \ {r})

\* the quotient sum / n as a value: an integer when n divides sum
Quotient(sum, n) ==
    IF sum % n = 0 THEN I(sum \div n)
    ELSE [t |-> "ratio", i |-> sum, s |-> ToString(n)]

\* the aggregates of SQLite: SUM and AVG of no rows are NULL, COUNT is 0
SqlSum(sales) == IF sales = {} THEN Null ELSE I(SumRevenue(sales))
SqlAvg(sales) == IF sales = {} THEN Null ELSE Quotient(SumPrice(sales), Cardinality(sales))
SqlCountDistinct(sales) == I(Cardinality({r.product_name : r \in sales}))

\* DataManager.get_sales_summary: dict(cursor.fetchone()); on an exception
\* it prints the exception and returns {}
get_sales_summary(db) ==
    IF ReadError(db, "sales") # "none"
    THEN [Shown(db, <<>>, <<>>) EXCEPT !.exc = ReadError(db, "sales"),
                                      !.sent = db.conn = "open",
                                      !.msg = "Error getting sales summary"]
    ELSE Shown(db, << [total_sales |-> I(Cardinality(db.tabs.sales)),
                       total_revenue |-> SqlSum(db.tabs.sales),
                       avg_price |-> SqlAvg(db.tabs.sales),
                       unique_products |-> SqlCountDistinct(db.tabs.sales)] >>, <<>>)

\* "value or 0" of Python
PyOr(v, d) == IF PyTruthy(v) THEN v ELSE d

\* f"{value:,.2f}": None has no such format
FormatRaises(v) == IsNull(v)

\* DataManager.get_sales_data(limit): SELECT * FROM sales ORDER BY sale_date
\* DESC LIMIT ?, [] on an exception
get_sales_data(db, limit) ==
    IF ReadError(db, "sales") # "none"
    THEN [Shown(db, <<>>, <<>>) EXCEPT !.exc = ReadError(db, "sales"),
                                      !.sent = db.conn = "open",
                                      !.msg = "Error fetching sales data"]
    ELSE Only({ Shown(db, SubSeq(all, 1, Min(limit, Len(all))), <<>>)
                : all \in {SortById(db.tabs.sales)} })

DashboardSales == 20     \* refresh_dashboard: get_sales_data(20)

\* ProfessionalDashboard.refresh_dashboard: the four labels, then the table
refresh_dashboard(db) ==
    Only({ IF s.rows = <<>>
           THEN [s EXCEPT !.rows = << [total_sales |-> I(0), total_revenue |-> I(0),
                                       avg_price |-> I(0), unique_products |-> I(0)] >>,
                          !.top = get_sales_data(db, DashboardSales).rows]
           ELSE LET shown == [f \in DOMAIN s.rows[1] |-> PyOr(s.rows[1][f], I(0))]
                IN  IF FormatRaises(shown.total_revenue) \/ FormatRaises(shown.avg_price)
                    THEN [s EXCEPT !.rows = <<>>, !.exc = "TypeError",
                                   !.msg = "Error refreshing dashboard"]
                    ELSE [s EXCEPT !.rows = <<shown>>,
                                   !.top = get_sales_data(db, DashboardSales).rows]
           : s \in {get_sales_summary(db)} })

\* SampleDataGenerator.get_data_summary: the lines it prints; an exception
\* ends the printing with "Error getting data summary"
get_data_summary(db) ==
    LET line(label, v) == [label |-> label, value |-> v]
        head == << line("Users", I(Cardinality(db.tabs.users))),
                   line("Sales Records", I(Cardinality(db.tabs.sales))) >>
        revenue == SqlSum(db.tabs.sales)
        average == SqlAvg(db.tabs.sales)
    IN  IF ~({"users", "sales", "system_metrics"} \subseteq db.schema)
        THEN [Shown(db, <<>>, <<>>) EXCEPT !.exc = "OperationalError",
                                          !.msg = "Error getting data summary"]
        ELSE IF FormatRaises(revenue)
        THEN [Shown(db, head, <<>>) EXCEPT !.exc = "TypeError",
                                          !.msg = "Error getting data summary"]
        ELSE IF FormatRaises(average)
        THEN [Shown(db, head \o <<line("Total Revenue", revenue)>>, <<>>) EXCEPT
                 !.exc = "TypeError", !.msg = "Error getting data summary"]
        ELSE Shown(db, head \o << line("Total Revenue", revenue),
                                  line("Average Price", average),
                                  line("Unique Products", SqlCountDistinct(db.tabs.sales)),
                                  line("System Metrics",
                                       I(Cardinality(db.tabs.system_metrics))) >>, <<>>)

\* DataManager.add_sale: True when the row is written and committed, False
\* (after printing the exception) otherwise
DataManager_add_sale(db, product_name, quantity, price, region, salesperson) ==
    LET stmt == InsertStmt("sales", {"product_name", "quantity", "price", "region",
                                     "salesperson"})
        binds == [set |-> [product_name |-> T(product_name), quantity |-> I(quantity),
                           price |-> I(price), region |-> T(region),
                           salesperson |-> T(salesperson)],
                  where |-> NoBinds]
    IN  Only({ [Outcome(stmt, binds, res, 1) EXCEPT
                  !.ret = IF res.exc = "none" THEN 1 ELSE 0,
                  !.msg = IF res.exc = "none" THEN "Success" ELSE "Failed to add sale"]
               : res \in {Execute("professional", db, stmt, binds)} })

\* ProfessionalDashboard.add_sale: the Add Sale form
add_sale(db, productText, quantityText, priceText, regionText, salespersonText) ==
    LET product_name == PyStrip(productText)
        quantity == PyStrip(quantityText)
        price == PyStrip(priceText)
        region == PyStrip(regionText)
        salesperson == PyStrip(salespersonText)
    IN  IF ~PyIntOk(quantity) \/ ~PyFloatOk(price)
        THEN [Unsent(db, "Validation Error") EXCEPT !.exc = "ValueError"]
        ELSE IF \/ product_name = "" \/ PyInt(quantity) = 0 \/ PyFloat(price) = 0
                \/ region = "" \/ salesperson = ""
        THEN Unsent(db, "All fields are required")
        ELSE IF PyInt(quantity) <= 0 \/ PyFloat(price) <= 0
        THEN Unsent(db, "Quantity and price must be positive")
        ELSE DataManager_add_sale(db, product_name, PyInt(quantity), PyFloat(price),
                                  region, salesperson)

\* the loop "for i in range(100)" of generate_sales_data
RECURSIVE insert_sales(_, _, _)
insert_sales(db, picks, k) ==
    IF k > Len(picks) THEN Done("none", db)
    ELSE Only({ IF r.exc # "none" THEN r
                ELSE insert_sales(r.db, picks, k + 1)
                : r \in {Step("professional", db,
                           InsertStmt("sales", {"product_name", "quantity", "price",
                                                "sale_date", "region", "salesperson"}),
                           [set |-> [product_name |-> T(picks[k][1]),
                                     quantity |-> I(picks[k][2]),
                                     price |-> I(picks[k][3]), sale_date |-> Now,
                                     region |-> T("Europe"),
                                     salesperson |-> T("John Smith")],
                            where |-> NoBinds])} })

\* SampleDataGenerator.generate_sales_data: DELETE FROM sales, then the loop
generate_sales_data(db, picks) ==
    Only({ IF r.exc # "none" THEN r ELSE insert_sales(r.db, picks, 1)
           : r \in {Step("professional", db,
                      [verb |-> "DELETE", table |-> "sales", cols |-> {},
                       hasWhere |-> FALSE, where |-> {}, limit |-> ""],
                      [set |-> NoBinds, where |-> NoBinds])} })

\* (metric, value in hundredths) of one sample metric: the lower end of
\* uniform(20, 85) for cpu_usage and the upper end of randint(5, 50) for
\* active_users
MetricPicks == {<<"cpu_usage", 2000>>, <<"active_users", 5000>>}

\* the loops "for i in range(24)" and "for metric in metrics" of
\* generate_system_metrics
RECURSIVE insert_metrics(_, _, _)
insert_metrics(db, picks, k) ==
    IF k > Len(picks) THEN Done("none", db)
    ELSE Only({ IF r.exc # "none" THEN r
                ELSE insert_metrics(r.db, picks, k + 1)
                : r \in {Step("professional", db,
                           InsertStmt("system_metrics",
                                      {"metric_name", "metric_value", "timestamp"}),
                           [set |-> [metric_name |-> T(picks[k][1]),
                                     metric_value |-> I(picks[k][2]),
                                     timestamp |-> Now],
                            where |-> NoBinds])} })

\* SampleDataGenerator.generate_system_metrics: DELETE FROM system_metrics,
\* then the loops, then one commit; an exception is printed
generate_system_metrics(db, picks) ==
    Only({ IF r.exc # "none" THEN r ELSE insert_metrics(r.db, picks, 1)
           : r \in {Step("professional", db,
                      [verb |-> "DELETE", table |-> "system_metrics", cols |-> {},
                       hasWhere |-> FALSE, where |-> {}, limit |-> ""],
                      [set |-> NoBinds, where |-> NoBinds])} })

SaleForms ==
    {<<"Tablet Air", "3", "20", "Europe", "Ann">>,
     <<" Eve ", "10", "1.50", "Asia Pacific", "Ann">>,
     <<"Tablet Air", "0", "20", "Europe", "Ann">>,
     <<"Tablet Air", "abc", "20", "Europe", "Ann">>,
     <<"Tablet Air", "3", "-5", "Europe", "Ann">>,
     <<" ", "3", "20", "Europe", "Ann">>}

InitPD == Boot("professional")

\* main.py DatabaseManager.__init__: create_tables().  "except Exception"
\* reports whatever is raised, the AttributeError on None included, in a
\* dialog, and the program goes on to its login page
PDCreateTables ==
    /\ prog = "professional"
    /\ phase = "connected"
    /\ IF conn # "open"
       THEN /\ last' = Event("create_tables", ReadError(DB, ""),
                             "Failed to create tables")
            /\ UNCHANGED <<schema, tabs, seq, disk>>
       ELSE \E db \in {professional_create_tables(DB)} :
              /\ schema' = db.schema
              /\ tabs' = db.tabs
              /\ seq' = db.seq
              /\ disk' = Committed(TRUE, db)
              /\ last' = Event("create_tables", "none", "")
    /\ phase' = "ready"
    /\ UNCHANGED <<prog, conn, nops, rt>>

PDHandler(op, out) ==
    Handled(op, "sales", out.binds.set, out.binds.where, Null, out)

\* login that looks the user up by name only
login_AnyPassword(db, username, password) ==
    LET sel == [verb |-> "SELECT", table |-> "users", cols |-> {},
                hasWhere |-> TRUE, where |-> {"username"},
                limit |-> ""]
        selBinds == [set |-> NoBinds,
                     where |-> [username |-> T(username)]]
        upd == UpdateStmt("users", {"last_login"}, {"id"})
    IN  Only({ IF found.exc # "none" \/ found.rows = <<>>
               THEN [Outcome(sel, selBinds, found, 0) EXCEPT
                       !.ret = 0, !.msg = "Invalid username or password"]
               ELSE Only({ [Outcome(upd, b, res, 1) EXCEPT
                              !.ret = IF res.exc = "none" THEN 1 ELSE 0,
                              !.rows = found.rows,
                              !.msg = IF res.exc = "none" THEN ""
                                      ELSE "Invalid username or password"]
                           : b \in {[set |-> [last_login |-> Now],
                                     where |-> [id |-> found.rows[1].id]]},
                             res \in {Execute("professional", db, upd,
                                        [set |-> [last_login |-> Now],
                                         where |-> [id |-> found.rows[1].id]])} })
               : found \in {Execute("professional", db, sel, selBinds)} })

\* AuthenticationSystem.login: the user row by name and password hash, then
\* UPDATE users SET last_login = CURRENT_TIMESTAMP WHERE id = ? and commit;
\* True (ret 1) when both went through, False after printing any exception
login(db, username, password) ==
    LET sel == [verb |-> "SELECT", table |-> "users", cols |-> {},
                hasWhere |-> TRUE, where |-> {"username", "password_hash"},
                limit |-> ""]
        selBinds == [set |-> NoBinds,
                     where |-> [username |-> T(username),
                                password_hash |-> T(Sha256(password))]]
        upd == UpdateStmt("users", {"last_login"}, {"id"})
    IN  Only({ IF found.exc # "none" \/ found.rows = <<>>
               THEN [Outcome(sel, selBinds, found, 0) EXCEPT
                       !.ret = 0, !.msg = "Invalid username or password"]
               ELSE Only({ [Outcome(upd, b, res, 1) EXCEPT
                              !.ret = IF res.exc = "none" THEN 1 ELSE 0,
                              !.rows = found.rows,
                              !.msg = IF res.exc = "none" THEN ""
                                      ELSE "Invalid username or password"]
                           : b \in {[set |-> [last_login |-> Now],
                                     where |-> [id |-> found.rows[1].id]]},
                             res \in {Execute("professional", db, upd,
                                        [set |-> [last_login |-> Now],
                                         where |-> [id |-> found.rows[1].id]])} })
               : found \in {Execute("professional", db, sel, selBinds)} })

\* what is typed in the login form
Credentials ==
    {<<"admin", "admin123">>, <<"admin", "letmein">>, <<"guest", "admin123">>}

Pages == {"dashboard", "data_management"}

\* the main thread is in the event loop: between handlers, or inside a
\* message box, and not inside a callback of root.after
InEventLoop == rt.ui \in {"idle", "dialog"} /\ rt.timer = "idle"

\* the main thread is between handlers: a button can be pressed
AtRest == rt.ui = "idle" /\ rt.timer = "idle"

\* handle_login: login(), then show_page("dashboard"), which refreshes the
\* dashboard (it only reads); else the dialog "Invalid username or password"
PDLogin(c) ==
    /\ prog = "professional"
    /\ phase = "ready"
    /\ rt.user = ""
    /\ AtRest
    /\ \E out \in {login(DB, c[1], c[2])} :
           /\ tabs' = out.tabs
           /\ seq' = out.seq
           /\ disk' = Committed(out.commit, out)
           /\ last' = Call("login", "users", out.binds.set,
                           [username |-> T(c[1]), password |-> T(c[2])], Null, out)
           /\ rt' = IF out.ret = 1
                    THEN [rt EXCEPT !.user = c[1], !.page = "dashboard"]
                    ELSE rt
    /\ UNCHANGED <<prog, phase, conn, schema, nops>>

\* handle_logout: logout(), show_login()
PDLogout ==
    /\ prog = "professional"
    /\ phase = "ready"
    /\ rt.user # ""
    /\ AtRest
    /\ rt' = [rt EXCEPT !.user = "", !.page = "login"]
    /\ last' = Event("logout", "none", "")
    /\ UNCHANGED <<prog, phase, conn, schema, tabs, seq, disk, nops>>

\* show_page without the test of current_user
PDShowPage_NoGuard(page) ==
    /\ prog = "professional"
    /\ phase = "ready"
    /\ rt.page # page
    /\ AtRest
    /\ rt' = [rt EXCEPT !.page = page]
    /\ last' = [Event("show_page", "none", "") EXCEPT !.table = page]
    /\ UNCHANGED <<prog, phase, conn, schema, tabs, seq, disk, nops>>

\* show_page(page_name): show_login() when nobody is logged in; else the
\* page, and its refresh, which only reads.  The navigation buttons stand on
\* the pages behind the login, the method itself can be called at any time
PDShowPage(page) ==
    /\ prog = "professional"
    /\ phase = "ready"
    /\ rt.page # page
    /\ AtRest
    /\ rt' = [rt EXCEPT !.page = IF rt.user = "" THEN "login" ELSE page]
    /\ last' = [Event("show_page", "none", "") EXCEPT !.table = page]
    /\ UNCHANGED <<prog, phase, conn, schema, tabs, seq, disk, nops>>

\* a button of a page is pressed: somebody is logged in and the page shows
OnPage(page) ==
    /\ prog = "professional"
    /\ phase = "ready"
    /\ rt.user # ""
    /\ rt.page = page
    /\ AtRest
    /\ nops < MaxOps

PDAddSale(f) ==
    /\ OnPage("data_management")
    /\ \E out \in {add_sale(DB, f[1], f[2], f[3], f[4], f[5])} : PDHandler("add_sale", out)

\* DataManager.get_sales_data(limit), called on the manager
PDGetSalesData(limit) ==
    /\ prog = "professional"
    /\ phase = "ready"
    /\ nops < MaxOps
    /\ \E out \in {get_sales_data(DB, limit)} : PDHandler("get_sales_data", out)

\* DataManager.get_sales_summary, as ReportGenerator calls it
PDGetSalesSummary ==
    /\ prog = "professional"
    /\ phase = "ready"
    /\ nops < MaxOps
    /\ \E out \in {get_sales_summary(DB)} : PDHandler("get_sales_summary", out)

\* the Refresh Data button of the dashboard page
PDRefreshDashboard ==
    /\ OnPage("dashboard")
    /\ \E out \in {refresh_dashboard(DB)} : PDHandler("refresh_dashboard", out)

\* sample_data.py is a script of its own, with its own connection: it
\* runs whether or not the dashboard has created the tables
PDGenerateSalesData(picks) ==
    /\ prog = "professional"
    /\ nops < MaxOps
    /\ \E out \in {generate_sales_data([DB EXCEPT !.conn = OwnConnection], picks)} :
           /\ tabs' = out.db.tabs
           /\ seq' = out.db.seq
           /\ disk' = Committed(out.commit, out.db)
           /\ last' = [Event("generate_sales_data", out.exc, "") EXCEPT
                         !.sent = TRUE, !.commit = out.commit]
    /\ nops' = nops + 1
    /\ UNCHANGED <<prog, phase, conn, schema, rt>>

\* generate_system_metrics of the same script
PDGenerateSystemMetrics(picks) ==
    /\ prog = "professional"
    /\ nops < MaxOps
    /\ \E out \in {generate_system_metrics([DB EXCEPT !.conn = OwnConnection], picks)} :
           /\ tabs' = out.db.tabs
           /\ seq' = out.db.seq
           /\ disk' = Committed(out.commit, out.db)
           /\ last' = [Event("generate_system_metrics", out.exc, "") EXCEPT
                         !.sent = TRUE, !.commit = out.commit]
    /\ nops' = nops + 1
    /\ UNCHANGED <<prog, phase, conn, schema, rt>>

PDGetDataSummary ==
    /\ prog = "professional"
    /\ nops < MaxOps
    /\ \E out \in {get_data_summary([DB EXCEPT !.conn = OwnConnection])} : PDHandler("get_data_summary", out)

NextPD ==
    \/ Start
    \/ PDCreateTables
    \/ \E c \in Credentials : PDLogin(c)
    \/ PDLogout
    \/ \E page \in Pages : PDShowPage(page)
    \/ \E f \in SaleForms : PDAddSale(f)
    \/ \E limit \in {1, DashboardSales} : PDGetSalesData(limit)
    \/ PDGetSalesSummary
    \/ PDRefreshDashboard
    \/ \E picks \in [1 .. SampleSales -> SalePicks] : PDGenerateSalesData(picks)
    \/ \E picks \in [1 .. SampleMetrics -> MetricPicks] : PDGenerateSystemMetrics(picks)
    \/ PDGetDataSummary

SpecPD == InitPD /\ [][NextPD]_vars

(***************************************************************************)
(* The professional dashboard with its update thread                       *)
(* (start_real_time_updates) and the steps of its event loop: a handler    *)
(* is entered, uses the connection, opens its message box, returns.        *)
(***************************************************************************)
MaxQueue == 2     \* callbacks of root.after waiting in the event queue

\* update_loop that calls refresh_dashboard itself, on the update thread
update_loop_Direct(r) ==
    IF r.page = "dashboard" /\ r.user # "" /\ r.auto
    THEN [r EXCEPT !.pc = "db"]
    ELSE [r EXCEPT !.pc = "sleep"]

\* one turn of update_loop up to time.sleep: on the dashboard page of a
\* logged-in user with auto refresh on, root.after(0, self.refresh_dashboard)
update_loop(r) ==
    IF r.page = "dashboard" /\ r.user # "" /\ r.auto
    THEN [r EXCEPT !.queue = @ + 1, !.pc = "sleep"]
    ELSE [r EXCEPT !.pc = "sleep"]

RTReady == prog = "professional" /\ phase = "ready"

UpdateLoopCheck ==
    /\ RTReady
    /\ rt.pc = "check"
    /\ rt.queue < MaxQueue
    /\ rt' = update_loop(rt)
    /\ UNCHANGED <<prog, phase, conn, schema, tabs, seq, disk, nops, last>>

\* time.sleep(interval) returns (or the call made on the thread does)
UpdateLoopWake ==
    /\ RTReady
    /\ rt.pc # "check"
    /\ rt' = [rt EXCEPT !.pc = "check"]
    /\ UNCHANGED <<prog, phase, conn, schema, tabs, seq, disk, nops, last>>

\* the Auto Refresh check box of the settings page
ToggleAutoRefresh ==
    /\ RTReady
    /\ rt.user # ""
    /\ AtRest
    /\ rt' = [rt EXCEPT !.auto = ~@]
    /\ UNCHANGED <<prog, phase, conn, schema, tabs, seq, disk, nops, last>>

\* the event loop of the main thread takes a callback of root.after:
\* refresh_dashboard starts
Dispatch ==
    /\ RTReady
    /\ rt.queue > 0
    /\ InEventLoop
    /\ rt' = [rt EXCEPT !.queue = @ - 1, !.timer = "db"]
    /\ UNCHANGED <<prog, phase, conn, schema, tabs, seq, disk, nops, last>>

\* refresh_dashboard, run as a callback, returns
TimerReturn ==
    /\ RTReady
    /\ rt.timer = "db"
    /\ \E out \in {refresh_dashboard(DB)} :
           /\ tabs' = out.tabs
           /\ seq' = out.seq
           /\ disk' = Committed(out.commit, out)
           /\ last' = Call("refresh_dashboard", "sales", out.binds.set,
                           out.binds.where, Null, out)
    /\ rt' = [rt EXCEPT !.timer = "idle"]
    /\ UNCHANGED <<prog, phase, conn, schema, nops>>

\* the Add Sale button: the handler is entered
AddSaleEnter(f) ==
    /\ OnPage("data_management")
    /\ rt' = [rt EXCEPT !.ui = "add", !.form = f]
    /\ nops' = nops + 1
    /\ UNCHANGED <<prog, phase, conn, schema, tabs, seq, disk, last>>

\* add_sale up to its message box: every path opens one
AddSaleExecuted ==
    /\ RTReady
    /\ rt.ui = "add"
    /\ rt.timer = "idle"
    /\ \E out \in {add_sale(DB, rt.form[1], rt.form[2], rt.form[3], rt.form[4],
                            rt.form[5])} :
           /\ tabs' = out.tabs
           /\ seq' = out.seq
           /\ disk' = Committed(out.commit, out)
           /\ last' = Call("add_sale", "sales", out.binds.set, out.binds.where,
                           Null, out)
           /\ rt' = [rt EXCEPT !.ui = "dialog",
                               !.form = IF out.msg = "Success" THEN @ ELSE <<>>]
    /\ UNCHANGED <<prog, phase, conn, schema, nops>>

\* the message box is closed: after "Success" the form is cleared and
\* refresh_data_management() reads the sales
DialogClosed ==
    /\ RTReady
    /\ rt.ui = "dialog"
    /\ rt.timer = "idle"
    /\ rt' = [rt EXCEPT !.ui = IF rt.form # <<>> THEN "refresh" ELSE "idle",
                        !.form = <<>>]
    /\ UNCHANGED <<prog, phase, conn, schema, tabs, seq, disk, nops, last>>

\* refresh_data_management returns, and add_sale with it
AddSaleReturn ==
    /\ RTReady
    /\ rt.ui = "refresh"
    /\ rt.timer = "idle"
    /\ rt' = [rt EXCEPT !.ui = "idle"]
    /\ UNCHANGED <<prog, phase, conn, schema, tabs, seq, disk, nops, last>>

NextRT ==
    \/ PDCreateTables
    \/ \E c \in Credentials : PDLogin(c)
    \/ PDLogout
    \/ \E page \in Pages : PDShowPage(page)
    \/ UpdateLoopCheck
    \/ UpdateLoopWake
    \/ ToggleAutoRefresh
    \/ Dispatch
    \/ TimerReturn
    \/ \E f \in SaleForms : AddSaleEnter(f)
    \/ AddSaleExecuted
    \/ DialogClosed
    \/ AddSaleReturn

SpecRT == InitPD /\ [][NextRT]_vars

(***************************************************************************)
(* SystemMonitor (system_monitor.py): the monitoring loop kept going by     *)
(* root.after, and the Start/Stop button.  It has no database.              *)
(***************************************************************************)
HistoryLen == 2   \* deque(maxlen=100) of the readings

\* psutil.cpu_percent(interval=0.1)
Readings == {10, 90}

\* the texts of the Update Interval spin box: its default, a step down, and
\* a text typed into it
Intervals == {"1000", "500", "abc"}

\* deque.append on a deque with maxlen
deque_append(h, x) ==
    IF Len(h) < HistoryLen THEN Append(h, x) ELSE Append(Tail(h), x)

\* update_system_data: nothing when not running; else the reading is
\* appended, the widgets are updated and the next update is scheduled with
\* root.after(interval, ...), or with root.after(1000, ...) by the except
\* branch when int(self.interval_var.get()) raises
update_system_data(r, cpu_percent) ==
    IF ~r.running THEN r
    ELSE [r EXCEPT !.cpu_history = deque_append(@, cpu_percent),
                   !.queue = @ + 1]

\* SystemMonitor.__init__: initialize_data fills the history with the
\* current reading, running = True, start_monitoring()
InitSM ==
    /\ prog = "monitor"
    /\ phase = "ready"
    /\ conn = "none"
    /\ schema = {}
    /\ tabs = EmptyTabs
    /\ seq = ZeroSeq
    /\ disk = [tabs |-> EmptyTabs, seq |-> ZeroSeq]
    /\ nops = 0
    /\ last = NoCall
    /\ \E first, cpu_percent \in Readings :
          rt = update_system_data(
                 [RtIdle EXCEPT !.running = TRUE,
                                !.cpu_history = [k \in 1 .. HistoryLen |-> first]],
                 cpu_percent)

\* a call of update_system_data on the window r, made by op
SMUpdate(op, r, cpu_percent) ==
    /\ rt' = update_system_data(r, cpu_percent)
    /\ last' = IF r.running /\ ~PyIntOk(r.interval)
               THEN Event(op, "ValueError", "Error updating system data")
               ELSE Event(op, "none", "")
    /\ UNCHANGED <<prog, phase, conn, schema, tabs, seq, disk>>

\* a callback of root.after is due: the event loop calls update_system_data
SMTimerFires ==
    /\ prog = "monitor"
    /\ rt.queue > 0
    /\ \E cpu_percent \in Readings :
          SMUpdate("update_system_data", [rt EXCEPT !.queue = @ - 1], cpu_percent)
    /\ UNCHANGED nops

\* toggle_monitoring: running is negated, and start_monitoring() calls
\* update_system_data when it has become True
SMToggleMonitoring ==
    /\ prog = "monitor"
    /\ nops < MaxOps
    /\ rt.queue < MaxQueue
    /\ \E cpu_percent \in Readings :
          SMUpdate("toggle_monitoring", [rt EXCEPT !.running = ~@], cpu_percent)
    /\ nops' = nops + 1

\* the spin box is changed
SMSetInterval(text) ==
    /\ prog = "monitor"
    /\ rt.interval # text
    /\ rt' = [rt EXCEPT !.interval = text]
    /\ last' = Event("set_interval", "none", "")
    /\ UNCHANGED <<prog, phase, conn, schema, tabs, seq, disk, nops>>

NextSM ==
    \/ SMTimerFires
    \/ SMToggleMonitoring
    \/ \E text \in Intervals : SMSetInterval(text)

SpecSM == InitSM /\ [][NextSM]_vars

(***************************************************************************)
(* CRUDOperationsDemo (crud_operations.py): the form, the table of users   *)
(* and the Create / Update buttons around the DatabaseManager.  The table   *)
(* shows the users as load_data read them after every change.              *)
(***************************************************************************)
\* the texts that match EmailValidator's pattern
EmailTexts == {"a@x.com", "b@x.com", "c@x.com"}

\* validate_form: RequiredValidator on the three fields, EmailValidator on
\* the email
validate_form(f) ==
    /\ \A k \in 1 .. 3 : f[k] # "" /\ PyStrip(f[k]) # ""
    /\ f[2] \in EmailTexts

\* user_data of create_user and update_user, as the fields hold it
CrudUserData(f) ==
    [username |-> T(f[1]), email |-> T(f[2]), full_name |-> T(f[3]),
     role |-> T("user"), is_active |-> I(1)]

\* load_data: the rows of the table are deleted and read again, which drops
\* the selection; on_record_select then finds nothing selected
load_data(r) == [r EXCEPT !.selection = 0]

\* on_record_select: the record of the selected row becomes current_record
\* and the buttons change over; nothing happens without a selection
on_record_select(r) ==
    IF r.selection = 0 THEN r
    ELSE [r EXCEPT !.current_record = r.selection,
                   !.create_btn = "disabled", !.update_btn = "normal"]

\* clear_form that resets current_record and leaves the buttons alone
clear_form_KeepButtons(r) == [r EXCEPT !.current_record = 0]

\* clear_form: the fields are emptied, current_record = None, Update is
\* disabled and Create enabled
clear_form(r) ==
    [r EXCEPT !.current_record = 0, !.update_btn = "disabled",
              !.create_btn = "normal"]

\* create_user: the outcome of the call, and the window after it
create_user(db, r, f) ==
    IF ~validate_form(f) THEN [out |-> Unsent(db, ""), win |-> r]
    ELSE Only({ [out |-> [o EXCEPT
                            !.msg = CASE o.exc = "none" -> "Success"
                                      [] o.exc = "IntegrityError" ->
                                           "Username or email already exists"
                                      [] OTHER -> "Failed to create user"],
                 win |-> IF o.exc = "none" THEN clear_form(load_data(r)) ELSE r]
                : o \in {insert_record("crud", db, "users", CrudUserData(f))} })

\* update_user: on the row of current_record
update_user(db, r, f) ==
    IF r.current_record = 0
    THEN [out |-> Unsent(db, "Please select a user to update"), win |-> r]
    ELSE IF ~validate_form(f) THEN [out |-> Unsent(db, ""), win |-> r]
    ELSE Only({ [out |-> [o EXCEPT
                            !.msg = CASE o.exc = "none" -> "Success"
                                      [] o.exc = "IntegrityError" ->
                                           "Username or email already exists"
                                      [] OTHER -> "Failed to update user"],
                 win |-> IF o.exc = "none" THEN clear_form(load_data(r)) ELSE r]
                : o \in {update_record("crud", db, "users", CrudUserData(f),
                                       [id |-> I(r.current_record)])} })

\* delete_selected: on the row selected in the table, after the question
\* "Are you sure you want to delete this user?"
delete_selected(db, r, yes) ==
    IF r.selection = 0
    THEN [out |-> Unsent(db, "Please select a user to delete"), win |-> r]
    ELSE IF ~yes THEN [out |-> Unsent(db, ""), win |-> r]
    ELSE Only({ [out |-> [o EXCEPT
                            !.msg = IF o.exc = "none" THEN "Success"
                                    ELSE "Failed to delete user"],
                 win |-> IF o.exc = "none" THEN clear_form(load_data(r)) ELSE r]
                : o \in {delete_record("crud", db, "users",
                                       [id |-> I(r.selection)])} })

CrudForms ==
    {<<"alice", "a@x.com", "Alice">>,
     <<"bob", "b@x.com", "Bob">>,
     <<"alice", "c@x.com", "Al">>,
     <<" ", "c@x.com", "Al">>,
     <<"carol", "carol", "Carol">>}

InitCR == Boot("crud")

CRReady == prog = "crud" /\ phase = "ready"

\* a handler of the window that calls the DatabaseManager
CRHandler(op, h) ==
    /\ tabs' = h.out.tabs
    /\ seq' = h.out.seq
    /\ disk' = Committed(h.out.commit, h.out)
    /\ last' = Call(op, "users", h.out.binds.set, h.out.binds.where, Null, h.out)
    /\ rt' = h.win
    /\ nops' = nops + 1
    /\ UNCHANGED <<prog, phase, conn, schema>>

\* a row of the table is clicked: <<TreeviewSelect>>
CRRecordSelect(id) ==
    /\ CRReady
    /\ \E u \in tabs.users : u.id = I(id)
    /\ rt.selection # id
    /\ rt' = on_record_select([rt EXCEPT !.selection = id])
    /\ last' = Event("on_record_select", "none", "")
    /\ UNCHANGED <<prog, phase, conn, schema, tabs, seq, disk, nops>>

\* the Create User button; a disabled button calls nothing
CRCreateUser(f) ==
    /\ CRReady
    /\ nops < MaxOps
    /\ rt.create_btn = "normal"
    /\ \E h \in {create_user(DB, rt, f)} : CRHandler("create_user", h)

\* the Update User button
CRUpdateUser(f) ==
    /\ CRReady
    /\ nops < MaxOps
    /\ rt.update_btn = "normal"
    /\ \E h \in {update_user(DB, rt, f)} : CRHandler("update_user", h)

\* the Delete Selected button and the answer to its question
CRDeleteSelected(yes) ==
    /\ CRReady
    /\ nops < MaxOps
    /\ \E h \in {delete_selected(DB, rt, yes)} : CRHandler("delete_selected", h)

\* the Clear Form button
CRClearForm ==
    /\ CRReady
    /\ rt.current_record # 0
    /\ rt' = clear_form(rt)
    /\ last' = Event("clear_form", "none", "")
    /\ UNCHANGED <<prog, phase, conn, schema, tabs, seq, disk, nops>>

\* the Refresh button and the column headings: load_data()
CRLoadData ==
    /\ CRReady
    /\ rt.selection # 0
    /\ rt' = on_record_select(load_data(rt))
    /\ last' = Event("load_data", "none", "")
    /\ UNCHANGED <<prog, phase, conn, schema, tabs, seq, disk, nops>>

NextCR ==
    \/ Start
    \/ CreateTables
    \/ \E id \in 1 .. MaxOps : CRRecordSelect(id)
    \/ \E f \in CrudForms : CRCreateUser(f)
    \/ \E f \in CrudForms : CRUpdateUser(f)
    \/ \E yes \in BOOLEAN : CRDeleteSelected(yes)
    \/ CRClearForm
    \/ CRLoadData
    \/ OnClosing

SpecCR == InitCR /\ [][NextCR]_vars

(***************************************************************************)
(* The programs together: each run is a run of one of them.          *)
(***************************************************************************)
Programs == {"basic", "crud", "dashboard", "professional"}

InitAll == \E p \in Programs : Boot(p)

NextAll == Next \/ NextDD \/ NextPD

SpecAll == InitAll /\ [][NextAll]_vars


(***************************************************************************)
(* Properties of the generic CRUD helpers.                                 *)
(***************************************************************************)
UsersDef == BasicTables.users

\* the rows of the table before the call that the WHERE clause of the call selects
PreMatched(call) ==
    {r \in call.pre[call.table] :
        Matches(TableDefs("basic")[call.table], call.conds, r)}

\* the call, made on the open connection, would leave two users rows with
\* one username or one email
DuplicatesKey(call) ==
    /\ call.table = "users"
    /\ call.preConn = "open"
    /\ \E c \in {"username", "email"} \cap DOMAIN call.data :
          \/ /\ call.op = "insert"
             /\ \E r \in call.pre["users"] :
                   SqlEq(UsersDef[c].aff, r[c], call.data[c])
          \/ /\ call.op = "update"
             /\ DOMAIN call.conds # {}
             /\ ~IsNull(call.data[c])
             /\ \/ Cardinality(PreMatched(call)) >= 2
                \/ /\ PreMatched(call) # {}
                   /\ \E r \in call.pre["users"] \ PreMatched(call) :
                         SqlEq(UsersDef[c].aff, r[c], call.data[c])

\* C1: no two users rows share a username or an email, and an insert or
\* update that would create such a pair fails with IntegrityError and leaves
\* every table as it was.
C1_UsersUnique ==
    /\ \A r1, r2 \in tabs["users"] :
          r1 # r2 => r1.username # r2.username /\ r1.email # r2.email
    /\ DuplicatesKey(last) =>
          last.exc = "IntegrityError" /\ tabs = last.pre

C1_Witness ==
    /\ DuplicatesKey(last)
    /\ last.op = "update"
    /\ last.exc = "IntegrityError"
    /\ Cardinality(tabs["users"]) = 2

\* the row select_records(table, {'id': returned_id}) returns right after the
\* insert that is the last call
RoundTrip == select_records(prog, DB, last.table, [id |-> I(last.ret)], Null)

\* the value has the storage class the column's affinity prefers
FitsColumn(aff, v) ==
    \/ v.t = "null"
    \/ aff = "TEXT" /\ v.t = "text"
    \/ aff # "TEXT" /\ v.t = "int"

TargetId(call) == ApplyAffinity("INTEGER", call.conds.id)

ById(call) == call.op \in {"update", "delete"} /\ DOMAIN call.conds = {"id"}

EqualMatch(call, r) == \A c \in DOMAIN call.conds : r[c] = call.conds[c]

\* C4 as stated: delete_record removes exactly the rows whose columns equal
\* the condition values and returns their number.
C4_DeleteEqualRows ==
    (last.op = "delete" /\ last.exc = "none") =>
        LET before == last.pre[last.table]
            gone == {r \in before : EqualMatch(last, r)}
        IN  /\ tabs[last.table] = before \ gone
            /\ last.ret = Cardinality(gone)

\* C4 amended: delete_record removes exactly the rows that satisfy every
\* condition as SQL compares (the condition value converted by the column's
\* affinity, a NULL condition value matching no row) and no other row of any
\* table, and returns their number; with no match the tables are unchanged.
C4_DeleteSqlMatches ==
    (last.op = "delete" /\ last.exc = "none") =>
        /\ tabs[last.table] = last.pre[last.table] \ PreMatched(last)
        /\ \A t \in AllTables \ {last.table} : tabs[t] = last.pre[t]
        /\ last.ret = Cardinality(PreMatched(last))
        /\ PreMatched(last) = {} => last.ret = 0 /\ tabs = last.pre

C4_Witness ==
    /\ last.op = "delete"
    /\ last.exc = "none"
    /\ last.ret = 1
    /\ Cardinality(last.pre[last.table]) = 2
    /\ Cardinality(tabs[last.table]) = 1

\* C6: the statement text holds no caller-supplied value: a row limit, when
\* given, is a placeholder in the text and a bound parameter; and whatever
\* the values are, the call changes neither the schema nor another table.
C6_ValuesAlwaysBound ==
    last.sent =>
        /\ (last.op = "select" /\ PyTruthy(last.limit)) =>
              last.stmt.limit = "?"
        /\ schema = last.preSchema
        /\ \A t \in AllTables \ {last.table} : tabs[t] = last.pre[t]

\* C7: an empty fields mapping is rejected with ValidationError before any
\* statement is built or sent, and the tables are unchanged.
C7_EmptyFieldsRejected ==
    (last.op \in {"insert", "update"} /\ DOMAIN last.data = {}) =>
        /\ last.exc = "ValidationError"
        /\ ~last.sent
        /\ tabs = last.pre


(***************************************************************************)
(* Properties of schema initialisation, summaries, the joined orders view  *)
(* and stored order totals.                                                *)
(***************************************************************************)
\* C5: create_tables is idempotent.  Whenever it has run on a connection
\* that was opened, every table of the program exists (with the columns of
\* its CREATE TABLE statement), and a run on a file that already held the
\* tables leaves the set of tables and all existing rows exactly as they
\* were, so N runs in a row leave what one run leaves.
C5_CreateTablesIdempotent ==
    (last.op = "create_tables" /\ last.exc = "none") =>
        /\ schema = TableNames(prog)
        /\ last.preSchema # {} => schema = last.preSchema /\ tabs = last.pre

\* create_tables has run again on a file that holds rows
C5_Witness ==
    /\ last.op = "create_tables"
    /\ last.preSchema = TableNames(prog)
    /\ last.pre.users # {}
    /\ tabs = last.pre

\* C8: on a sales table with zero rows the summary is a defined structure
\* with count 0 and zero or null sum, average and distinct count, and neither
\* the summary call nor the code formatting its result raises an exception.
C8_EmptySummaryIsSafe ==
    (prog = "professional" /\ "sales" \in schema /\ tabs.sales = {}) =>
        /\ last.op \in {"get_sales_summary", "refresh_dashboard", "get_data_summary"}
              => last.exc = "none"
        /\ last.op \in {"get_sales_summary", "refresh_dashboard"} =>
              /\ Len(last.rows) = 1
              /\ last.rows[1].total_sales = I(0)
              /\ last.rows[1].total_revenue \in {Null, I(0)}
              /\ last.rows[1].avg_price \in {Null, I(0)}
              /\ last.rows[1].unique_products = I(0)

\* C9: the joined orders views list every row of the orders table, also the
\* orders whose user or product row has been deleted, and do not fail: the
\* orders table shows every order, the recent orders show every order up to
\* their limit (on a file that the connection can read).
C9_JoinedViewListsEveryOrder ==
    /\ (last.op = "refresh_orders_table" /\ conn = "open") =>
          /\ last.exc = "none"
          /\ {last.rows[k].id : k \in 1 .. Len(last.rows)} = {o.id : o \in tabs.orders}
    /\ (last.op = "refresh_analytics" /\ conn = "open") =>
          /\ last.exc = "none"
          /\ Len(last.rows) = Min(RecentLimit, Cardinality(tabs.orders))

\* C10: the total_price stored in an order row is never changed by a later
\* operation of the dashboard: in every step each order that stays in the
\* table keeps its total_price, in particular when the price of the product
\* it references is edited.
C10_TotalPriceImmutable ==
    [][\A o \in tabs.orders : \A n \in tabs'.orders :
          n.id = o.id => n.total_price = o.total_price]_vars

\* the price of a product has been edited while an order references it, and
\* the order still holds the total computed from the earlier price
C10_Witness ==
    /\ last.op = "edit_product"
    /\ last.exc = "none"
    /\ last.ret = 1
    /\ \E p \in tabs.products : \E q \in last.pre.products : \E o \in tabs.orders :
          /\ p.id = q.id
          /\ p.price # q.price
          /\ o.product_id = p.id
          /\ o.total_price = I(q.price.i * o.quantity.i)
          /\ o.total_price # I(p.price.i * o.quantity.i)

(***************************************************************************)
(* Properties of transactions, error reporting and seeding.                *)
(***************************************************************************)
\* the calls that write: the generic helpers, the forms, login, the loaders
Mutators ==
    {"insert", "update", "delete", "add_user", "add_product", "edit_user",
     "edit_product", "add_sale", "login", "load_sample_data",
     "generate_sales_data", "generate_system_metrics", "create_tables"}

\* C11: every mutating call commits before it returns.  Between calls the
\* connection holds no uncommitted change: its rows and row id sequences
\* are those of the file, after a call that succeeded and after a call that
\* failed alike.
C11_NothingUncommitted ==
    /\ tabs = disk.tabs
    /\ seq = disk.seq
    /\ (last.op \in Mutators /\ tabs # last.pre) => last.exc = "none"

\* a call has added a fourth user to the file, and a later call has failed
C11_Witness ==
    /\ last.op \in {"insert", "update"}
    /\ last.exc = "IntegrityError"
    /\ last.sent
    /\ prog = "basic"
    /\ Cardinality(disk.tabs.users) = Len(BasicSampleUsers) + 1
    /\ tabs = last.pre
\* the handlers of the forms and dialogs
FormHandlers == {"add_user", "add_product", "edit_user", "edit_product", "add_sale"}

\* C12: a failed mutation is never treated as success.  The success dialog
\* of a form, and the True of DataManager.add_sale, appear only when the
\* statement was executed without an exception and committed; a form whose
\* statement or input conversion raised reports an error instead.
C12_FailureNeverSuccess ==
    /\ (last.msg = "Success" \/ (last.op = "add_sale" /\ last.ret = 1)) =>
          /\ last.exc = "none"
          /\ last.sent
          /\ last.commit
          /\ tabs = disk.tabs
    /\ (last.op \in FormHandlers /\ last.exc # "none") =>
          /\ last.msg \notin {"", "Success"}
          /\ tabs = last.pre

\* the Add User form was sent with a username that exists
C12_Witness ==
    /\ prog = "basic"
    /\ last.op = "add_user"
    /\ last.sent
    /\ last.exc = "IntegrityError"
    /\ last.msg = "Username or email already exists"
\* the calls that only read
Queries == {"select", "get_sales_data", "get_sales_summary"}

\* C13: a failed query is always surfaced.  When the statement of a read
\* raised, the call returns nothing: the exception reaches the caller, and
\* no empty list or empty summary stands in for the result.
C13_FailedQuerySurfaced ==
    (last.op \in Queries /\ last.exc # "none") =>
        /\ last.ret = -1
        /\ last.msg = ""
\* the rows the seeding of a program writes, each with its table
SeedRows(p) ==
    CASE p = "basic" ->
           {<<"users", BasicSampleUsers[k]>> : k \in DOMAIN BasicSampleUsers}
             \cup {<<"products", BasicSampleProducts[k]>> :
                     k \in DOMAIN BasicSampleProducts}
      [] p = "dashboard" ->
           {<<"users", SampleUsers[k]>> : k \in DOMAIN SampleUsers}
             \cup {<<"products", SampleProducts[k]>> : k \in DOMAIN SampleProducts}
      [] p = "professional" ->
           {<<"users", [username |-> T("admin"),
                        password_hash |-> T(Sha256("admin123")),
                        email |-> T("admin@company.com"), role |-> T("admin")]>>}
      [] OTHER -> {}

\* the rows of the tables that hold the seed row
Copies(ts, seed) ==
    {r \in ts[seed[1]] : \A c \in DOMAIN seed[2] : r[c] = seed[2][c]}

\* C14: seeding is idempotent.  A run of the seeding step of a program
\* (load_sample_data, create_default_admin within create_tables) on its
\* opened file, whatever was inserted and deleted before, raises nothing
\* and leaves no seed row twice in its table.
C14_SeedingIdempotent ==
    (last.op \in {"load_sample_data", "create_tables"} /\ conn = "open") =>
        /\ last.exc = "none"
        /\ \A seed \in SeedRows(prog) :
              \/ Cardinality(Copies(tabs, seed)) <= 1
              \/ Copies(tabs, seed) = Copies(last.pre, seed)
\* a handler of the main thread is between two uses of the connection
MainUses == rt.ui \in {"add", "refresh"}

\* refresh_dashboard is running as a callback of root.after
TimerUses == rt.timer = "db"

\* the update thread is inside a call that uses the connection
ThreadUses == rt.pc = "db"

\* C15: all use of the shared connection is serialized.  The update thread
\* never uses the connection, and the refresh it schedules never runs while
\* a handler of the main thread is using the connection: at most one
\* operation is in progress on the connection.
C15_ConnectionSerialized ==
    /\ ~ThreadUses
    /\ ~(MainUses /\ TimerUses)

\* the scheduled refresh runs while the message box of add_sale is open
C15_Witness ==
    /\ TimerUses
    /\ rt.ui = "dialog"
    /\ rt.form # <<>>
    /\ tabs.sales # {}
(***************************************************************************)
(* Properties of startup, closing, references between tables and the       *)
(* order of grouped results.                                               *)
(***************************************************************************)
\* C16: a connection failure is fatal at startup.  While the connection was
\* never opened nothing is called on it: no create_tables, no seeding, no
\* CRUD call.
C16_NoCallWithoutConnection ==
    conn = "none" => last.op \in {"none", "start"}

\* C17: a schema creation failure is fatal at startup.  The program gets
\* past create_tables (to its seeding, its window, its calls) only with
\* every table of its schema in place.
C17_SchemaFailureIsFatal ==
    phase \in {"tables", "ready", "closed"} => TableNames(prog) \subseteq schema

\* C18: closing is idempotent.  disconnect() and the close handlers of the
\* windows raise nothing and leave the connection closed and the rows as
\* they were, on an open connection and on a closed one alike; disconnect()
\* on a manager that never connected does nothing; a second close changes
\* nothing.
C18_CloseIdempotent ==
    /\ last.op \in {"disconnect", "on_closing"} =>
          /\ last.exc = "none"
          /\ conn = "closed"
          /\ tabs = last.pre /\ tabs = disk.tabs
    /\ \A c \in ConnectOutcomes \cup {"closed"} :
          /\ disconnect(c).exc = "none"
          /\ disconnect(disconnect(c).conn) = disconnect(c)
          /\ c = "none" => disconnect(c).conn = "none"

\* disconnect() is called on a connection that is closed already
C18_Witness ==
    /\ last.op = "disconnect"
    /\ last.preConn = "closed"
    /\ conn = "closed"

\* the row an order refers to exists (NULL refers to nothing)
Refers(v, rows) == IsNull(v) \/ \E r \in rows : r.id = v

\* C19: referential integrity of orders.  Every order's user_id is the id
\* of a users row and its product_id the id of a products row: an insert or
\* update naming a missing row, and a delete of a row that orders name, fail.
C19_OrdersReferToRows ==
    prog = "basic" =>
        \A o \in tabs.orders :
            Refers(o.user_id, tabs.users) /\ Refers(o.product_id, tabs.products)

\* the product names of the dashboard in lexical order
NameOrder == <<"Coffee Mug", "Desk Chair", "Laptop", "Mouse", "Notebook", "Pen">>

\* the place of a name in the lexical order
Rank(name) == CHOOSE k \in DOMAIN NameOrder : NameOrder[k] = name

\* C20: grouped breakdowns are sorted.  The top selling products come in
\* descending order of units sold, and products with equal units in the
\* lexical order of their names.
C20_GroupsSortedTiesLexical ==
    (last.op = "refresh_analytics" /\ last.exc = "none") =>
        \A i, j \in DOMAIN last.top :
            i < j =>
              \/ last.top[i].total_sold > last.top[j].total_sold
              \/ /\ last.top[i].total_sold = last.top[j].total_sold
                 /\ Rank(last.top[i].name.s) <= Rank(last.top[j].name.s)

\* C21: select_records with a limit.  A call with an integer limit n >= 0
\* returns at most n rows, and a call with no conditions and no limit returns
\* every row of the table.
C21_LimitBoundsRows ==
    (last.op = "select" /\ last.exc = "none") =>
        /\ (last.limit.t = "int" /\ last.limit.i >= 0) =>
               Len(last.rows) <= last.limit.i
        /\ (last.conds = NoBinds /\ last.limit = Null) =>
               {last.rows[k] : k \in DOMAIN last.rows} = tabs[last.table]

\* a call of insert_record has just returned an id
Inserted == nops' = nops + 1 /\ last'.op = "insert" /\ last'.exc = "none"

\* the id returned is new to the table: positive, above every id the table
\* has generated or holds, and the rows already there are kept as they are
FreshId ==
    LET t == last'.table IN
        /\ last'.ret > 0
        /\ last'.ret > seq[t]
        /\ \A r \in tabs[t] : r.id.i # last'.ret
        /\ \E r \in tabs'[t] : r.id.i = last'.ret
        /\ tabs[t] \subseteq tabs'[t]
        /\ seq'[t] >= last'.ret

\* the sequence of a table never goes back, and a delete changes no row it
\* leaves in the table
IdsKept ==
    /\ \A t \in AllTables : seq'[t] >= seq[t]
    /\ (nops' = nops + 1 /\ last'.op = "delete") =>
           tabs'[last'.table] \subseteq tabs[last'.table]

Matching(rows, cred) ==
    {r \in rows : r.username = cred.username
                    /\ r.password_hash = T(Sha256(cred.password.s))}

\* C23: authentication and last_login.  On an open database a login whose
\* name and password match a user row returns True, makes that user the
\* current user and sets last_login of that row and of no other; a login
\* that matches no row returns False, changes no row and sets no current
\* user.
C23_LoginAuthenticates ==
    (last.op = "login" /\ last.preConn = "open" /\ "users" \in last.preSchema) =>
        LET match == Matching(last.pre.users, last.conds) IN
            IF match # {}
            THEN /\ last.ret = 1
                 /\ rt.user = last.conds.username.s
                 /\ tabs.users = {IF r \in match THEN [r EXCEPT !.last_login = Now]
                                  ELSE r : r \in last.pre.users}
                 /\ Cardinality(match) = 1
                 /\ \A t \in AllTables \ {"users"} : tabs[t] = last.pre[t]
            ELSE /\ last.ret = 0
                 /\ rt.user = ""
                 /\ tabs = last.pre

\* the administrator logs in for the first time
C23_Witness ==
    /\ last.op = "login" /\ last.ret = 1 /\ rt.user = "admin"
    /\ \E r \in last.pre.users : r.username = T("admin") /\ IsNull(r.last_login)
    /\ \E r \in tabs.users : r.username = T("admin") /\ r.last_login = Now

\* C24: the metrics table is append-only.  No step of the program or of its
\* data generator removes or changes a row of system_metrics: the set of
\* metric rows only grows.
C24_MetricsAppendOnly ==
    [][tabs.system_metrics \subseteq tabs'.system_metrics]_vars

\* C25: non-negative price.  After any sequence of add-product and
\* edit-product operations every stored product has a price >= 0.
C25_PriceNonNegative ==
    \A r \in tabs.products : ~(r.price.t = "int" /\ r.price.i < 0)

\* C26: empty conditions never widen a mutation.  update_record or
\* delete_record called with an empty conditions mapping raises, updates or
\* deletes no row and leaves every table as it was.
C26_EmptyConditionsFail ==
    (last.op \in {"update", "delete"} /\ last.conds = NoBinds) =>
        /\ last.exc # "none"
        /\ last.ret = -1
        /\ tabs = last.pre
        /\ ~last.commit

\* delete_record('users', {}) on the seeded table: the statement is sent,
\* the syntax error is raised and the users are still there
C26_Witness ==
    /\ last.op = "delete" /\ last.table = "users" /\ last.conds = NoBinds
    /\ last.sent /\ last.exc = "OperationalError"
    /\ Cardinality(tabs.users) = Len(BasicSampleUsers)

\* C27: page and authentication.  In every state reached by logins, page
\* navigations and logouts the login page is shown whenever nobody is logged
\* in: show_page shows no other page without an authenticated user.
C27_LoggedOutShowsLogin ==
    (prog = "professional" /\ rt.user = "") => rt.page = "login"

\* somebody had logged in and out again, and show_page("dashboard") was
\* called after that: the login page is shown
C27_Witness ==
    /\ last.op = "show_page" /\ last.table = "dashboard"
    /\ rt.user = "" /\ rt.page = "login"
    /\ \E r \in tabs.users : r.last_login = Now

\* C28: auto refresh respects the session.  A refresh of the dashboard that
\* the update thread scheduled runs only while a user is logged in and the
\* dashboard page is shown, however the thread interleaves with logouts and
\* page navigation.
C28_RefreshOnlyInSession ==
    (prog = "professional" /\ rt.timer = "db") =>
        rt.user # "" /\ rt.page = "dashboard"

\* C29: a single monitoring loop.  Whatever the sequence of presses of the
\* Start/Stop button and of timer firings, at most one update_system_data
\* callback is pending in the event loop.
C29_SinglePendingCallback ==
    prog = "monitor" => rt.queue <= 1

\* C30: the mode of the CRUD form.  After any sequence of selections,
\* creates, updates, deletes and clearings of the form the Update button is
\* enabled exactly when a record is selected (current_record is not None),
\* and exactly then the Create button is disabled.
C30_ButtonsFollowRecord ==
    prog = "crud" =>
        /\ rt.update_btn = "normal" <=> rt.current_record # 0
        /\ rt.create_btn = "disabled" <=> rt.current_record # 0

\* an update refused as a duplicate: the record stays selected and Update
\* stays enabled
C30_Witness ==
    /\ prog = "crud"
    /\ last.op = "update_user" /\ last.exc = "IntegrityError"
    /\ rt.current_record # 0
    /\ rt.update_btn = "normal" /\ rt.create_btn = "disabled"

====
